---- MODULE Spec2Model ----
(***************************************************************************)
(* Model of the task orchestration of video-automator:                     *)
(*   - the scheduler of src/ui/api.py (_start_task, _run_one, the pause /  *)
(*     resume / stop endpoints, _stop_all_tasks, the _on_step progress     *)
(*     handler), with each asyncio task modelled by its suspension points; *)
(*   - the b-roll insertion retry loop of                                   *)
(*     src/heygen_automation.py (handle_broll_for_scene).                  *)
(* An asyncio.Event is a value plus, for each waiting task, whether the    *)
(* future it waits on has been resolved (set() resolves the futures of the *)
(* current waiters; a later clear() does not take that back).              *)
(***************************************************************************)
EXTENDS Integers, FiniteSets, Sequences, TLC

\* ---------------------------------------------------------------- bounds
NumKeys == 2
MaxConcurrency == 1
\* capacity of the semaphore where the pages of concurrent jobs are followed
\* (runner.max_concurrency is 2 unless configured)
PageSlots == 2
NumScenes == 2
MaxStopCalls == 1
MaxWords == 2
MaxWfSteps == 2
\* longest template, in pieces
MaxPieces == 2
MaxDoneScenes == 4

MaxAttempts == 3
ValidationRounds == 3

Keys == 1..NumKeys
Scenes == 1..NumScenes

\* ------------------------------------------------------- scheduler state
VARIABLES
    status,       \* _tasks[k]["status"]; "none" when _tasks has no record for k
    taskGate,     \* _task_pause[k]: "none" (no Event), "open" (set), "closed"
    globalGate,   \* _global_pause.is_set()
    pc,           \* where the asyncio task of _go()/_run_one for k is suspended
    woken,        \* the future the task waits on (Event.wait) has been resolved
    cancelReq,    \* Task.cancel() was called and CancelledError is not yet delivered
    pageOpen,     \* runner.automation._page is not None
    stopCalls,    \* invocations of _stop_all_tasks suspended in close_browser():
                  \* for each, the keys whose status was running/paused/queued at the call
    lastStop,     \* history: the _stop_all_tasks that completed in the last step, if any
    sceneSeen,    \* _task_scene_done[k]
    sceneDone,    \* _tasks[k]["scene_done"]
    okScenes,     \* history: scene indices confirmed ok since the run's start_part
    dupOk,        \* history: an ok finish_scene was handled for an index already confirmed
    markedByAll,  \* history: stop-all marked the record stopped, key not resubmitted since
    tasks,        \* number of unfinished asyncio tasks created by _start_task for k
    handle,       \* k in _active_tasks
    stoppedByStop \* history: api_task_stop hit a live job of k, key not resubmitted since

\* ------------------------------------- bookkeeping fields of the records
VARIABLES
    jobPage,      \* the page the body of job k drives (self._page); NoPage before
                  \* _init_session
    followed,     \* which groups of variables the specification follows: "history"
                  \* (okScenes, dupOk), "fields" (error, report, finished_at),
                  \* "progress" (scene_total, done_scenes, _global_scene_done),
                  \* "pages" (jobPage), "restart" (restarted), "retry" (lastFailed),
                  \* "health" (details)
    recError,     \* _tasks[k]["error"]: "", "closed" (a browser-closed message), "other"
    recReport,    \* _tasks[k]["report"] is not None
    details,      \* the scenes with an entry in _tasks[k]["report_details"]
    lastFailed,   \* history: key and scene of the latest finish_scene with ok=false for
                  \* a scene not yet confirmed, and whether an ok event for it followed
    restarted,    \* history: the latest start_part of k found an error, a report, a
                  \* finished_at and a scene_done > 0 in the record
    finishedAt,   \* _tasks[k]["finished_at"] is not None
    sceneTotal,   \* _tasks[k]["scene_total"]
    doneScenes,   \* _progress["done_scenes"]
    globalSeen    \* _global_scene_done, as pairs <<key, scene>>

\* ------------------------------------------------ b-roll insertion state
VARIABLES
    bKind,        \* which branch the query selects: "empty", "nano", "stock"
    bPc,          \* position in handle_broll_for_scene
    bAttempt,     \* loop variable attempt
    bActs,        \* insertions executed (result click / handle_nano_banano call)
    bQWords,      \* words in query
    bWords,       \* words left in current_query (stock search loop)
    bState,       \* state: last value returned by _detect_broll_state_after_canvas_click
    bProbes,      \* probes made in this invocation
    bReason,      \* last_validation_reason
    bReport,      \* entries this invocation appended to self.report
    bFinish,      \* ok of the finish_broll step emitted: "none", "ok", "fail"
    bResult       \* return value: "none" (still running), "true", "false"

\* ------------------------------------ one call of wf_render (helpers.py)
VARIABLES
    render        \* the template, the context, the returned string and whether the
                  \* call has returned

\* ------------------------------------ one job body (process_episode_part)
VARIABLES
    jFlow,        \* "workflow" (config workflow_steps non-empty) or "default"
    jSteps,       \* workflow_steps: the list of step types
    jGenEnabled,  \* _generation_enabled()
    jPc,          \* position in process_episode_part / _run_workflow
    jIdx,         \* index of the workflow step being dispatched
    jBrolls,      \* per scene, the kind of its brolls cell: "none", "empty", "nano", "stock"
    jScene,       \* loop variable of the scene loop
    jRound,       \* attempt of the final validation loop (default flow)
    jExecuted,    \* history: indices of the workflow steps dispatched, in order
    jRaisedAt,    \* history: index of the step whose handler raised, 0 if none
    jReport,      \* categories of self.report that hold at least one entry
    jSkipped,     \* task_status.steps holds a step with status SKIPPED
    jGenClicked,  \* the generate button was clicked
    jSubmitted,   \* the final window was submitted
    jDirtyAction, \* history: a click or submit happened while self.report held an entry
    jLastError,   \* auto._last_error
    jRet,         \* end of process_episode_part: "none", "true", "false", "cancelled"
    jStatus,      \* status of the task record of the job
    jError,       \* error field of the task record
    jTrouble,     \* history: some step or call of the job did not succeed
    jCompensated, \* history: an insertion was accepted after Set-as-BG on its first attempt
    jExhausted    \* history: an invocation of handle_broll_for_scene ended after its
                  \* last attempt had failed

runVars == <<tasks, handle, stoppedByStop>>
jCfg == <<jFlow, jSteps, jGenEnabled, jBrolls, render>>
jobVars == <<jCfg, jPc, jIdx, jScene, jRound, jExecuted,
             jRaisedAt, jReport, jSkipped, jGenClicked, jSubmitted, jDirtyAction,
             jLastError, jRet, jStatus, jError, jTrouble, jCompensated, jExhausted>>
planVars == <<followed, jobPage, lastFailed, details, sceneTotal, doneScenes>>
recVars == <<followed, jobPage, recError, recReport, restarted, lastFailed, details, finishedAt, sceneTotal, doneScenes, globalSeen>>
schedVars == <<status, taskGate, globalGate, pc, woken, cancelReq, pageOpen,
               stopCalls, lastStop, sceneSeen, sceneDone, okScenes, dupOk, markedByAll,
               runVars, recVars>>
brollVars == <<bKind, bPc, bAttempt, bActs, bQWords, bWords, bState, bProbes, bReason,
               bReport, bFinish, bResult>>
vars == <<schedVars, brollVars, jobVars>>

NoStop == [done |-> FALSE, snap |-> {}, closedBefore |-> FALSE]

\* ------------------------------------------------------------- helpers
\* what _last_error holds when the body returns: nothing, a message of the
\* browser-closed class (_is_browser_closed_error), any other message
ErrorKinds == {"", "closed", "other"}

Live == {"running", "paused", "queued"}
Terminal == {"success", "failed", "stopped"}
HoldingPcs == {"gate_g", "gate_t", "browser", "act", "cp_g", "cp_t"}
GlobalWaitPcs == {"gate_g", "cp_g"}
TaskWaitPcs == {"gate_t", "cp_t"}

\* no page object
NoPage == 0

\* context.pages once open_browser has returned True: open_browser takes the
\* first page of the context or opens one, so the list is not empty
ContextPages == <<1>>

\* _init_session with a shared browser: the first page of the first context,
\* a new page only where the context has none
InitSession(pages) == IF pages = <<>> THEN Len(pages) + 1 ELSE Head(pages)

\* _sem = asyncio.Semaphore(runner.max_concurrency)
Capacity == IF "pages" \in followed THEN PageSlots ELSE MaxConcurrency

\* number of tasks inside `async with _sem`
SlotsHeld == Cardinality({k \in Keys : pc[k] \in HoldingPcs})

\* _ensure_task: create the record with status queued unless it exists
EnsureTask(s, k) == IF s[k] = "none" THEN [s EXCEPT ![k] = "queued"] ELSE s

\* `pause_ev = _task_pause.get(key); if None: Event(); set()`
EnsureGate(g, k) == IF g[k] = "none" THEN [g EXCEPT ![k] = "open"] ELSE g

\* _global_pause.set(): resolves the future of every task waiting on it
WakeGlobal(w) == [k \in Keys |-> IF pc[k] \in GlobalWaitPcs THEN TRUE ELSE w[k]]

\* _task_pause[k].set()
WakeTask(w, k) == IF pc[k] \in TaskWaitPcs THEN [w EXCEPT ![k] = TRUE] ELSE w

\* `for ev in _task_pause.values(): ev.set()`
WakeAllTasks(w) == [k \in Keys |-> IF pc[k] \in TaskWaitPcs THEN TRUE ELSE w[k]]

\* a variable of a group takes its new value where the group is followed, and
\* keeps its initial value elsewhere
Rec(group, new, old) == IF group \in followed THEN new ELSE old

\* faulty variant: a terminal status is written without the stamp
Finished_NoStamp(f, k) == f

\* _set_task_status with a terminal status:
\* `if status in ("success", "failed", "stopped") and not t.get("finished_at")`
Finished(f, k) == Rec("fields", [f EXCEPT ![k] = TRUE], f)

\* what a previous run of k has left in the record
LeftBehind(k) == recError[k] # "" /\ recReport[k] /\ finishedAt[k] /\ sceneDone[k] > 0

\* faulty variant: the error of the previous run is kept
StartPart_KeepsError(k) ==
    /\ status' = [status EXCEPT ![k] = "running"]
    /\ sceneSeen' = [sceneSeen EXCEPT ![k] = {}]
    /\ sceneDone' = [sceneDone EXCEPT ![k] = 0]
    /\ okScenes' = [okScenes EXCEPT ![k] = {}]
    /\ dupOk' = [dupOk EXCEPT ![k] = FALSE]
    /\ recReport' = Rec("fields", [recReport EXCEPT ![k] = FALSE], recReport)
    /\ finishedAt' = Rec("fields", [finishedAt EXCEPT ![k] = FALSE], finishedAt)
    /\ globalSeen' = Rec("progress", globalSeen \ ({k} \X sceneSeen[k]), globalSeen)
    /\ restarted' = Rec("restart", [restarted EXCEPT ![k] = LeftBehind(k)], restarted)
    /\ UNCHANGED recError

\* the _on_step handler for start_part
StartPart(k) ==
    /\ status' = [status EXCEPT ![k] = "running"]
    /\ sceneSeen' = [sceneSeen EXCEPT ![k] = {}]
    /\ sceneDone' = [sceneDone EXCEPT ![k] = 0]
    /\ okScenes' = [okScenes EXCEPT ![k] = {}]
    /\ dupOk' = [dupOk EXCEPT ![k] = FALSE]
    /\ recError' = Rec("fields", [recError EXCEPT ![k] = ""], recError)
    /\ recReport' = Rec("fields", [recReport EXCEPT ![k] = FALSE], recReport)
    /\ finishedAt' = Rec("fields", [finishedAt EXCEPT ![k] = FALSE], finishedAt)
    /\ globalSeen' = Rec("progress", globalSeen \ ({k} \X sceneSeen[k]), globalSeen)
    /\ restarted' = Rec("restart", [restarted EXCEPT ![k] = LeftBehind(k)], restarted)

\* a step of the job that does not report start_part
NoStartPart ==
    UNCHANGED <<status, sceneSeen, sceneDone, okScenes, dupOk,
                recError, recReport, restarted, finishedAt, globalSeen>>

\* faulty variant: a failed finish_scene enters the seen set as well
SeenAfter_CountsFailed(seen, i, ok) == seen \cup {i}

\* the seen set after finish_scene(i, ok): `if scene_idx not in seen: seen.add(scene_idx)`
SeenAfter(seen, i, ok) == IF ok /\ i \notin seen THEN seen \cup {i} ELSE seen

NoFailed == [key |-> 0, scene |-> 0, retried |-> FALSE]

\* the history of failed scenes after finish_scene(i, ok) of job k
FailedAfter(f, seen, k, i, ok) ==
    IF ~ok /\ i \notin seen THEN [key |-> k, scene |-> i, retried |-> FALSE]
    ELSE IF ok /\ f.key = k /\ f.scene = i THEN [f EXCEPT !.retried = TRUE]
    ELSE f

\* faulty variant: counts every ok finish_scene, seen before or not
DoneAfter_NoDedupe(done, seen, i, ok) == IF ok THEN done + 1 ELSE done

\* scene_done after finish_scene(i, ok): `t["scene_done"] = len(seen)` when i is new
DoneAfter(done, seen, i, ok) ==
    IF ok /\ i \notin seen THEN Cardinality(seen \cup {i}) ELSE done

\* faulty variant: the global gate is not waited for
PreStart_SkipsGlobal(k, fromGlobal) ==
    IF taskGate[k] # "open" /\ pc[k] # "gate_t"
    THEN /\ pc' = [pc EXCEPT ![k] = "gate_t"]
         /\ NoStartPart
    ELSE /\ pc' = [pc EXCEPT ![k] = "browser"]
         /\ StartPart(k)

\* the two waits of _run_one before start_part, entered at the global gate
\* (fromGlobal) or resumed after it; the task suspends at the first closed gate.
\* A wait that was resolved by set() returns even if the Event was cleared since.
PreStart(k, fromGlobal) ==
    IF fromGlobal /\ ~globalGate
    THEN /\ pc' = [pc EXCEPT ![k] = "gate_g"]
         /\ NoStartPart
    ELSE IF taskGate[k] # "open" /\ pc[k] # "gate_t"
    THEN /\ pc' = [pc EXCEPT ![k] = "gate_t"]
         /\ NoStartPart
    ELSE /\ pc' = [pc EXCEPT ![k] = "browser"]
         /\ StartPart(k)

\* faulty variant: after the global wait the task always suspends for a new set() of its
\* own gate, open or not
AwaitGate_WaitsForNextSet(k, fromGlobal) ==
    IF fromGlobal /\ ~globalGate
    THEN pc' = [pc EXCEPT ![k] = "cp_g"]
    ELSE IF taskGate[k] # "open" \/ pc[k] = "cp_g"
    THEN pc' = [pc EXCEPT ![k] = "cp_t"]
    ELSE pc' = [pc EXCEPT ![k] = "act"]

\* _await_gate: wait for the global Event, then for the per-task Event; a wait
\* that was resolved by set() returns even if the Event was cleared since
AwaitGate(k, fromGlobal) ==
    IF fromGlobal /\ ~globalGate
    THEN pc' = [pc EXCEPT ![k] = "cp_g"]
    ELSE IF taskGate[k] # "open" /\ pc[k] # "cp_t"
    THEN pc' = [pc EXCEPT ![k] = "cp_t"]
    ELSE pc' = [pc EXCEPT ![k] = "act"]

\* ------------------------------------------------------------ Init
SchedInit ==
    /\ status = [k \in Keys |-> "none"]
    /\ taskGate = [k \in Keys |-> "none"]
    /\ globalGate = TRUE
    /\ pc = [k \in Keys |-> "idle"]
    /\ woken = [k \in Keys |-> FALSE]
    /\ cancelReq = [k \in Keys |-> FALSE]
    /\ pageOpen = FALSE
    /\ stopCalls = <<>>
    /\ lastStop = NoStop
    /\ sceneSeen = [k \in Keys |-> {}]
    /\ sceneDone = [k \in Keys |-> 0]
    /\ okScenes = [k \in Keys |-> {}]
    /\ dupOk = [k \in Keys |-> FALSE]
    /\ markedByAll = [k \in Keys |-> FALSE]
    /\ tasks = [k \in Keys |-> 0]
    /\ handle = [k \in Keys |-> FALSE]
    /\ stoppedByStop = [k \in Keys |-> FALSE]
    /\ recError = [k \in Keys |-> ""]
    /\ recReport = [k \in Keys |-> FALSE]
    /\ restarted = [k \in Keys |-> FALSE]
    /\ lastFailed = NoFailed
    /\ details = [k \in Keys |-> {}]
    /\ finishedAt = [k \in Keys |-> FALSE]
    /\ sceneTotal = [k \in Keys |-> 0]
    /\ doneScenes = 0
    /\ globalSeen = {}
    /\ jobPage = [k \in Keys |-> NoPage]

\* the bookkeeping fields keep their initial values
RecOff == followed = {"history"}

BrollIdle ==
    /\ bKind = "empty"
    /\ bPc = "off"
    /\ bAttempt = 1
    /\ bActs = 0
    /\ bQWords = 1
    /\ bWords = 1
    /\ bState = "none"
    /\ bProbes = 0
    /\ bReason = ""
    /\ bReport = <<>>
    /\ bFinish = "none"
    /\ bResult = "none"

\* ------------------------------------------------- wf_render (helpers.py)
\* the names a placeholder can carry: two context variables of the interpreter
\* and a name that is no key of any context
PlaceholderNames == {"part_idx", "title", "other"}
ContextKeys == {"part_idx", "title"}

\* the values of a context: Python ints and strs, each with its str() text
ContextValues ==
    {[type |-> "int", text |-> "0"], [type |-> "int", text |-> "1"],
     [type |-> "str", text |-> ""], [type |-> "str", text |-> "a"]}
Absent == [type |-> "absent", text |-> ""]

\* a template is a sequence of pieces: literal text, or a placeholder {{name}}
TextPiece(t) == [kind |-> "text", s |-> t]
Placeholder(n) == [kind |-> "placeholder", s |-> n]
Templates ==
    UNION {[1..n -> {TextPiece("a")} \cup {Placeholder(name) : name \in PlaceholderNames}] :
              n \in 0..MaxPieces}

\* Python truth value of a context value
Truthy(v) == IF v.type = "int" THEN v.text # "0" ELSE v.text # ""

\* _repl: `if k in ctx: return str(ctx.get(k) or ""); return m.group(0)`
Repl(piece, ctx) ==
    IF piece.s \in DOMAIN ctx /\ ctx[piece.s] # Absent
    THEN TextPiece(IF Truthy(ctx[piece.s]) THEN ctx[piece.s].text ELSE "")
    ELSE piece

\* wf_render(v, ctx): `if "{{" not in s: return s`, then re.sub with _repl
WfRender(tpl, ctx) ==
    IF \A i \in 1..Len(tpl) : tpl[i].kind # "placeholder" THEN tpl
    ELSE [i \in 1..Len(tpl) |->
             IF tpl[i].kind = "placeholder" THEN Repl(tpl[i], ctx) ELSE tpl[i]]

\* no call of wf_render is followed
RenderIdle ==
    render = [tpl |-> <<>>, ctx |-> [n \in ContextKeys |-> Absent], out |-> <<>>,
              done |-> TRUE]

\* a call of wf_render with a template and a context
RenderInit ==
    \E tpl \in Templates, ctx \in [ContextKeys -> ContextValues \cup {Absent}] :
        render = [tpl |-> tpl, ctx |-> ctx, out |-> <<>>, done |-> FALSE]

\* the call returns
RenderCall ==
    /\ ~render.done
    /\ render' = [render EXCEPT !.out = WfRender(render.tpl, render.ctx), !.done = TRUE]
    /\ UNCHANGED <<schedVars, brollVars, jFlow, jSteps, jGenEnabled, jBrolls, jPc, jIdx,
                   jScene, jRound, jExecuted, jRaisedAt, jReport, jSkipped, jGenClicked,
                   jSubmitted, jDirtyAction, jLastError, jRet, jStatus, jError, jTrouble,
                   jCompensated, jExhausted>>

\* no job body is modelled in detail
JobOff ==
    /\ jFlow = "default"
    /\ jSteps = <<>>
    /\ jGenEnabled = TRUE
    /\ jPc = "off"
    /\ jIdx = 0
    /\ jBrolls = [i \in 1..NumScenes |-> "none"]
    /\ jScene = 0
    /\ jRound = 0
    /\ jExecuted = <<>>
    /\ jRaisedAt = 0
    /\ jReport = {}
    /\ jSkipped = FALSE
    /\ jGenClicked = FALSE
    /\ jSubmitted = FALSE
    /\ jDirtyAction = FALSE
    /\ jLastError = ""
    /\ jRet = "none"
    /\ jStatus = "running"
    /\ jError = ""
    /\ jTrouble = FALSE
    /\ jCompensated = FALSE
    /\ jExhausted = FALSE

JobIdle == RenderIdle /\ JobOff

Init == SchedInit /\ RecOff /\ BrollIdle /\ JobIdle

\* ------------------------------------------------- the endpoints (api.py)
\* `_ensure_task(ep, part)` ... `_active_tasks[key] = asyncio.create_task(_go())`
CreateTask(k) ==
    /\ status' = EnsureTask(status, k)
    /\ pc' = [pc EXCEPT ![k] = "new"]
    /\ cancelReq' = [cancelReq EXCEPT ![k] = FALSE]
    /\ markedByAll' = [markedByAll EXCEPT ![k] = FALSE]
    /\ tasks' = [tasks EXCEPT ![k] = @ + 1]
    /\ handle' = [handle EXCEPT ![k] = TRUE]
    /\ stoppedByStop' = [stoppedByStop EXCEPT ![k] = FALSE]

\* `key in _active_tasks and not _active_tasks[key].done()`
LiveRun(k) == handle[k] /\ pc[k] # "idle"

\* faulty variant: no check for a live run, a task is created on every call
_start_task_NoDedupe(k) ==
    /\ lastStop' = NoStop
    /\ tasks[k] <= 1
    /\ taskGate' = EnsureGate(taskGate, k)
    /\ CreateTask(k)
    /\ UNCHANGED <<globalGate, woken, pageOpen, stopCalls,
                   sceneSeen, sceneDone, okScenes, dupOk, recVars, brollVars, jobVars>>

\* _start_task
_start_task(k) ==
    /\ lastStop' = NoStop
    /\ IF LiveRun(k)
       THEN UNCHANGED <<status, taskGate, pc, cancelReq, markedByAll, runVars>>
       ELSE /\ taskGate' = EnsureGate(taskGate, k)
            /\ CreateTask(k)
    /\ UNCHANGED <<globalGate, woken, pageOpen, stopCalls,
                   sceneSeen, sceneDone, okScenes, dupOk, recVars, brollVars, jobVars>>

\* POST /tasks/{episode}/{part}/start
api_task_start(k) ==
    /\ lastStop' = NoStop
    /\ globalGate' = TRUE
    /\ woken' = WakeTask(WakeGlobal(woken), k)
    /\ IF LiveRun(k)
       THEN /\ taskGate' = IF taskGate[k] = "none" THEN taskGate
                           ELSE [taskGate EXCEPT ![k] = "open"]
            /\ UNCHANGED <<status, pc, cancelReq, markedByAll, runVars>>
       ELSE /\ taskGate' = [taskGate EXCEPT ![k] = "open"]
            /\ CreateTask(k)
    /\ UNCHANGED <<pageOpen, stopCalls,
                   sceneSeen, sceneDone, okScenes, dupOk, recVars, brollVars, jobVars>>

\* POST /run and POST /run/projects: the progress counters are reset,
\* _plan_tasks_for_episodes gives every part its record and its scene_total, and
\* _start_task is called for every part
api_run ==
    /\ lastStop' = NoStop
    /\ doneScenes' = Rec("progress", 0, doneScenes)
    /\ sceneTotal' = Rec("progress", [k \in Keys |-> NumScenes], sceneTotal)
    /\ status' = [k \in Keys |-> EnsureTask(status, k)[k]]
    /\ taskGate' = [k \in Keys |-> IF LiveRun(k) THEN taskGate[k]
                                    ELSE EnsureGate(taskGate, k)[k]]
    /\ pc' = [k \in Keys |-> IF LiveRun(k) THEN pc[k] ELSE "new"]
    /\ cancelReq' = [k \in Keys |-> LiveRun(k) /\ cancelReq[k]]
    /\ markedByAll' = [k \in Keys |-> LiveRun(k) /\ markedByAll[k]]
    /\ tasks' = [k \in Keys |-> IF LiveRun(k) THEN tasks[k] ELSE tasks[k] + 1]
    /\ handle' = [k \in Keys |-> TRUE]
    /\ stoppedByStop' = [k \in Keys |-> LiveRun(k) /\ stoppedByStop[k]]
    /\ UNCHANGED <<globalGate, woken, pageOpen, stopCalls, sceneSeen, sceneDone,
                   okScenes, dupOk, followed, jobPage, recError, recReport, restarted, lastFailed, details, finishedAt,
                   globalSeen, brollVars, jobVars>>

\* POST /run-workflow: opens the global gate and calls _start_task, without planning
api_run_workflow(k) ==
    /\ lastStop' = NoStop
    /\ globalGate' = TRUE
    /\ woken' = WakeGlobal(woken)
    /\ IF LiveRun(k)
       THEN UNCHANGED <<status, taskGate, pc, cancelReq, markedByAll, runVars>>
       ELSE /\ taskGate' = EnsureGate(taskGate, k)
            /\ CreateTask(k)
    /\ UNCHANGED <<pageOpen, stopCalls,
                   sceneSeen, sceneDone, okScenes, dupOk, recVars, brollVars, jobVars>>

\* POST /tasks/{episode}/{part}/pause
api_task_pause(k) ==
    /\ lastStop' = NoStop
    /\ taskGate' = [taskGate EXCEPT ![k] = "closed"]
    /\ status' = [status EXCEPT ![k] = "paused"]
    /\ UNCHANGED <<globalGate, pc, woken, cancelReq, pageOpen, stopCalls,
                   sceneSeen, sceneDone, okScenes, dupOk, markedByAll, runVars, recVars, brollVars, jobVars>>

\* POST /tasks/{episode}/{part}/resume
api_task_resume(k) ==
    /\ lastStop' = NoStop
    /\ taskGate' = [taskGate EXCEPT ![k] = "open"]
    /\ woken' = WakeTask(woken, k)
    /\ status' = IF EnsureTask(status, k)[k] = "paused"
                 THEN [status EXCEPT ![k] = "running"]
                 ELSE EnsureTask(status, k)
    /\ UNCHANGED <<globalGate, pc, cancelReq, pageOpen, stopCalls,
                   sceneSeen, sceneDone, okScenes, dupOk, markedByAll, runVars, recVars, brollVars, jobVars>>

\* POST /tasks/{episode}/{part}/stop; track says whether the history variable
\* stoppedByStop records the call
StopOne(k, track) ==
    /\ lastStop' = NoStop
    /\ cancelReq' = IF LiveRun(k) THEN [cancelReq EXCEPT ![k] = TRUE] ELSE cancelReq
    /\ taskGate' = IF taskGate[k] = "none" THEN taskGate
                   ELSE [taskGate EXCEPT ![k] = "open"]
    /\ woken' = IF taskGate[k] = "none" THEN woken ELSE WakeTask(woken, k)
    /\ status' = [status EXCEPT ![k] = "stopped"]
    /\ finishedAt' = Finished(finishedAt, k)
    /\ stoppedByStop' = IF track /\ LiveRun(k) THEN [stoppedByStop EXCEPT ![k] = TRUE]
                        ELSE stoppedByStop
    /\ UNCHANGED <<globalGate, pc, pageOpen, stopCalls, tasks, handle,
                   sceneSeen, sceneDone, okScenes, dupOk, markedByAll, followed, jobPage, recError,
                   recReport, restarted, lastFailed, details, sceneTotal, doneScenes, globalSeen, brollVars, jobVars>>

api_task_stop(k) == StopOne(k, FALSE)

\* the same endpoint, with its call recorded in stoppedByStop
api_task_stop_recorded(k) == StopOne(k, TRUE)

\* `for t in _tasks.values(): if status == "running": _set_task_status(t, "paused")`
PausedAll(s) == [k \in Keys |-> IF s[k] = "running" THEN "paused" ELSE s[k]]

\* `for t in _tasks.values(): if status == "paused": _set_task_status(t, "running")`
ResumedAll(s) == [k \in Keys |-> IF s[k] = "paused" THEN "running" ELSE s[k]]

\* POST /pause
api_pause ==
    /\ lastStop' = NoStop
    /\ globalGate' = FALSE
    /\ status' = PausedAll(status)
    /\ UNCHANGED <<taskGate, pc, woken, cancelReq, pageOpen, stopCalls,
                   sceneSeen, sceneDone, okScenes, dupOk, markedByAll, runVars, recVars, brollVars, jobVars>>

\* POST /resume
api_resume ==
    /\ lastStop' = NoStop
    /\ globalGate' = TRUE
    /\ woken' = WakeGlobal(woken)
    /\ status' = ResumedAll(status)
    /\ UNCHANGED <<taskGate, pc, cancelReq, pageOpen, stopCalls,
                   sceneSeen, sceneDone, okScenes, dupOk, markedByAll, runVars, recVars, brollVars, jobVars>>

\* faulty variant: the marking loop forgets the records that are still queued
MarkStopped_NotQueued(s) ==
    [k \in Keys |-> IF s[k] \in {"running", "paused"} THEN "stopped" ELSE s[k]]

\* `if str(t.get("status")) in ("running", "paused", "queued"): _set_task_status(t, "stopped")`
MarkStopped(s) == [k \in Keys |-> IF s[k] \in Live THEN "stopped" ELSE s[k]]

\* faulty variant: the per-task Events are left as they are
OpenTaskGates_Skipped(g) == g

\* `for ev in list(_task_pause.values()): ev.set()`
OpenTaskGates(g) == [k \in Keys |-> IF g[k] = "none" THEN "none" ELSE "open"]

\* the part of _stop_all_tasks after `await runner.automation.close_browser()`:
\* no await in it, so it runs as one step. snap is the set of keys whose status
\* was running/paused/queued when _stop_all_tasks was called.
StopAllSync(snap) ==
    /\ sceneSeen' = [k \in Keys |-> {}]
    /\ globalGate' = TRUE
    /\ cancelReq' = [k \in Keys |-> IF LiveRun(k) THEN TRUE ELSE cancelReq[k]]
    /\ taskGate' = OpenTaskGates(taskGate)
    /\ woken' = WakeAllTasks(WakeGlobal(woken))
    /\ status' = MarkStopped(status)
    /\ finishedAt' = Rec("fields", [k \in Keys |-> finishedAt[k] \/ status[k] \in Live], finishedAt)
    /\ globalSeen' = Rec("progress", {}, globalSeen)
    /\ doneScenes' = Rec("progress", 0, doneScenes)
    /\ markedByAll' = [k \in Keys |-> markedByAll[k] \/ status[k] \in Live]
    /\ lastStop' = [done |-> TRUE, snap |-> snap,
                    closedBefore |-> (~globalGate \/ \E k \in Keys : taskGate[k] = "closed")]
    /\ UNCHANGED <<pc, sceneDone, okScenes, dupOk, runVars, followed, jobPage, recError,
                   recReport, restarted, lastFailed, details, sceneTotal, brollVars, jobVars>>

\* _stop_all_tasks up to its only await: close_browser() suspends in
\* browser.close() when runner.automation holds a page, and returns at once otherwise
StopAllCall ==
    IF pageOpen
    THEN /\ Len(stopCalls) < MaxStopCalls
         /\ stopCalls' = Append(stopCalls, {k \in Keys : status[k] \in Live})
         /\ lastStop' = NoStop
         /\ UNCHANGED <<status, taskGate, globalGate, pc, woken, cancelReq,
                        pageOpen, sceneSeen, sceneDone, okScenes, dupOk, markedByAll,
                        runVars, recVars, brollVars, jobVars>>
    ELSE /\ StopAllSync({k \in Keys : status[k] \in Live})
         /\ UNCHANGED <<pageOpen, stopCalls>>

\* browser.close() returned: close_browser sets _page = None, the rest follows
StopAllResume(i) ==
    /\ i \in 1..Len(stopCalls)
    /\ pageOpen' = FALSE
    /\ stopCalls' = [j \in 1..(Len(stopCalls) - 1) |->
                        IF j < i THEN stopCalls[j] ELSE stopCalls[j + 1]]
    /\ StopAllSync(stopCalls[i])

\* ------------------------------------- the asyncio task of a job (_go/_run_one)
\* the task is done; `finally: _active_tasks.pop(key, None)` runs only if _go
\* had started (inTry)
TaskEnds(k, inTry) ==
    /\ tasks' = [tasks EXCEPT ![k] = @ - 1]
    /\ handle' = IF inTry THEN [handle EXCEPT ![k] = FALSE] ELSE handle
    /\ UNCHANGED stoppedByStop

\* CancelledError is delivered at the await where the task is suspended; it
\* leaves `async with _sem`, and _go marks the record stopped and drops the handle
JobCancelled(k) ==
    /\ pc[k] \notin {"idle", "new"}
    /\ cancelReq[k]
    /\ pc' = [pc EXCEPT ![k] = "idle"]
    /\ cancelReq' = [cancelReq EXCEPT ![k] = FALSE]
    /\ woken' = [woken EXCEPT ![k] = FALSE]
    /\ status' = [status EXCEPT ![k] = "stopped"]
    /\ finishedAt' = Finished(finishedAt, k)
    /\ TaskEnds(k, TRUE)
    /\ lastStop' = NoStop
    /\ UNCHANGED <<taskGate, globalGate, pageOpen, stopCalls,
                   sceneSeen, sceneDone, okScenes, dupOk, markedByAll, followed, jobPage,
                   recError, recReport, restarted, lastFailed, details, sceneTotal, doneScenes, globalSeen, brollVars, jobVars>>

\* first step of the task: a task cancelled before it ever ran ends without
\* executing any line of _go; otherwise _run_one runs up to its first suspension
JobStart(k) ==
    /\ pc[k] = "new"
    /\ lastStop' = NoStop
    /\ woken' = [woken EXCEPT ![k] = FALSE]
    /\ IF cancelReq[k]
       THEN /\ pc' = [pc EXCEPT ![k] = "idle"]
            /\ cancelReq' = [cancelReq EXCEPT ![k] = FALSE]
            /\ TaskEnds(k, FALSE)
            /\ NoStartPart
       ELSE /\ IF SlotsHeld < Capacity
               THEN PreStart(k, TRUE)
               ELSE /\ pc' = [pc EXCEPT ![k] = "sem"]
                    /\ NoStartPart
            /\ UNCHANGED <<cancelReq, runVars>>
    /\ UNCHANGED <<taskGate, globalGate, pageOpen, stopCalls, markedByAll,
                   planVars, brollVars, jobVars>>

\* `async with _sem`: the waiting task gets a slot
JobAcquire(k) ==
    /\ pc[k] = "sem"
    /\ ~cancelReq[k]
    /\ SlotsHeld < Capacity
    /\ PreStart(k, TRUE)
    /\ woken' = [woken EXCEPT ![k] = FALSE]
    /\ lastStop' = NoStop
    /\ UNCHANGED <<taskGate, globalGate, cancelReq, pageOpen, stopCalls,
                   markedByAll, runVars, planVars, brollVars, jobVars>>

\* `await _global_pause.wait()` / `await pause_ev.wait()` of _run_one returns
JobGate(k) ==
    /\ pc[k] \in {"gate_g", "gate_t"}
    /\ ~cancelReq[k]
    /\ woken[k]
    /\ PreStart(k, FALSE)
    /\ woken' = [woken EXCEPT ![k] = FALSE]
    /\ lastStop' = NoStop
    /\ UNCHANGED <<taskGate, globalGate, cancelReq, pageOpen, stopCalls,
                   markedByAll, runVars, planVars, brollVars, jobVars>>

\* `await runner.automation.open_browser()` returns ok; on success the body
\* (process_episode_part) starts, _init_session chooses its page, and the body
\* suspends in its first actuator call
JobBrowser(k, ok) ==
    /\ pc[k] = "browser"
    /\ ~cancelReq[k]
    /\ lastStop' = NoStop
    /\ IF ok
       THEN /\ pc' = [pc EXCEPT ![k] = "act"]
            /\ pageOpen' = TRUE
            /\ jobPage' = Rec("pages", [jobPage EXCEPT ![k] = InitSession(ContextPages)],
                               jobPage)
            /\ UNCHANGED <<status, runVars, recError, finishedAt>>
       ELSE /\ pc' = [pc EXCEPT ![k] = "idle"]
            /\ status' = [status EXCEPT ![k] = "failed"]
            /\ finishedAt' = Finished(finishedAt, k)
            /\ recError' = Rec("fields", [recError EXCEPT ![k] = "other"], recError)
            /\ TaskEnds(k, TRUE)
            /\ UNCHANGED <<pageOpen, jobPage>>
    /\ UNCHANGED <<taskGate, globalGate, woken, cancelReq, stopCalls,
                   sceneSeen, sceneDone, okScenes, dupOk, markedByAll, followed,
                   recReport, restarted, lastFailed, details, sceneTotal, doneScenes, globalSeen, brollVars, jobVars>>

\* the body reports finish_scene(i, ok) through _on_step and goes on to its
\* next actuator call
JobFinishScene(k, i, ok) ==
    /\ pc[k] = "act"
    /\ ~cancelReq[k]
    /\ lastStop' = NoStop
    /\ ("progress" \in followed /\ ok /\ <<k, i>> \notin globalSeen)
          => doneScenes < MaxDoneScenes
    /\ globalSeen' = Rec("progress", IF ok THEN globalSeen \cup {<<k, i>>} ELSE globalSeen, globalSeen)
    /\ doneScenes' = Rec("progress", IF ok /\ <<k, i>> \notin globalSeen THEN doneScenes + 1
                       ELSE doneScenes, doneScenes)
    /\ lastFailed' = Rec("retry", FailedAfter(lastFailed, sceneSeen[k], k, i, ok), lastFailed)
    /\ UNCHANGED details
    /\ sceneSeen' = [sceneSeen EXCEPT ![k] = SeenAfter(sceneSeen[k], i, ok)]
    /\ sceneDone' = [sceneDone EXCEPT ![k] = DoneAfter(sceneDone[k], sceneSeen[k], i, ok)]
    /\ okScenes' = Rec("history", [okScenes EXCEPT ![k] = IF ok THEN @ \cup {i} ELSE @],
                       okScenes)
    /\ dupOk' = Rec("history", [dupOk EXCEPT ![k] = @ \/ (ok /\ i \in okScenes[k])], dupOk)
    /\ UNCHANGED <<status, taskGate, globalGate, pc, woken, cancelReq, pageOpen,
                   stopCalls, markedByAll, runVars, followed, jobPage, recError, recReport, restarted,
                   finishedAt, sceneTotal, brollVars, jobVars>>

\* the actuator call returns and the body reaches its next _await_gate
JobCheckpoint(k) ==
    /\ pc[k] = "act"
    /\ ~cancelReq[k]
    /\ AwaitGate(k, TRUE)
    /\ lastStop' = NoStop
    /\ UNCHANGED <<status, taskGate, globalGate, woken, cancelReq, pageOpen, stopCalls,
                   sceneSeen, sceneDone, okScenes, dupOk, markedByAll, runVars, recVars, brollVars, jobVars>>

\* an Event.wait() inside _await_gate returns
JobAwaitGate(k) ==
    /\ pc[k] \in {"cp_g", "cp_t"}
    /\ ~cancelReq[k]
    /\ woken[k]
    /\ AwaitGate(k, FALSE)
    /\ woken' = [woken EXCEPT ![k] = FALSE]
    /\ lastStop' = NoStop
    /\ UNCHANGED <<status, taskGate, globalGate, cancelReq, pageOpen, stopCalls,
                   sceneSeen, sceneDone, okScenes, dupOk, markedByAll, runVars, recVars, brollVars, jobVars>>

\* the scenes the entries of the job's report can name
ReportedScenes(rep) == IF rep /\ "health" \in followed THEN SUBSET Scenes ELSE {{}}

\* _compute_scene_health: scene_ok from scene_total and the scenes that have an
\* entry in report_details
SceneOk(total, bad) ==
    IF total > 0
    THEN (IF total - Cardinality(bad) > 0 THEN total - Cardinality(bad) ELSE 0)
    ELSE 0

\* process_episode_part returns ok, having left err in _last_error and a report
\* or none (rep); _run_one copies the error, reports finish_part and leaves the slot
JobFinish(k, ok, err, rep) ==
    /\ pc[k] = "act"
    /\ ~cancelReq[k]
    /\ err \in ErrorKinds
    /\ ok => err = ""
    /\ pc' = [pc EXCEPT ![k] = "idle"]
    /\ status' = [status EXCEPT ![k] = IF ok THEN "success" ELSE "failed"]
    /\ recError' = Rec("fields", [recError EXCEPT ![k] = IF ~ok /\ @ = "" THEN err ELSE @], recError)
    /\ recReport' = Rec("fields", [recReport EXCEPT ![k] = @ \/ rep], recReport)
    /\ \E bad \in ReportedScenes(rep) :
          details' = Rec("health", [details EXCEPT ![k] = IF rep THEN bad ELSE @], details)
    /\ UNCHANGED <<restarted, lastFailed>>
    /\ finishedAt' = Finished(finishedAt, k)
    /\ TaskEnds(k, TRUE)
    /\ lastStop' = NoStop
    /\ UNCHANGED <<taskGate, globalGate, woken, cancelReq, pageOpen, stopCalls,
                   sceneSeen, sceneDone, okScenes, dupOk, markedByAll, followed, jobPage,
                   sceneTotal, doneScenes, globalSeen, brollVars, jobVars>>

\* one step of the event loop running the task of k
JobStep(k) ==
    \/ JobCancelled(k)
    \/ JobStart(k)
    \/ JobAcquire(k)
    \/ JobGate(k)
    \/ \E ok \in BOOLEAN : JobBrowser(k, ok)
    \/ JobCheckpoint(k)
    \/ JobAwaitGate(k)
    \/ \E ok, rep \in BOOLEAN, err \in ErrorKinds : JobFinish(k, ok, err, rep)

\* scheduler and gates: every endpoint, every suspension point of the jobs
Next ==
    \/ \E k \in Keys : _start_task(k)
    \/ \E k \in Keys : api_task_start(k)
    \/ \E k \in Keys : api_task_pause(k)
    \/ \E k \in Keys : api_task_resume(k)
    \/ \E k \in Keys : api_task_stop(k)
    \/ api_pause
    \/ api_resume
    \/ StopAllCall
    \/ \E i \in 1..MaxStopCalls : StopAllResume(i)
    \/ \E k \in Keys : JobStep(k)

Spec == Init /\ [][Next]_vars

\* the event loop runs every task that is ready, and actuator calls return
SpecLive == Spec /\ \A k \in Keys : WF_vars(JobStep(k))

\* progress counting: the jobs report scene events; the gates stay open, and
\* everything that writes the scene sets or ends a run is included
NextProgress ==
    \/ \E k \in Keys : _start_task(k)
    \/ \E k \in Keys : api_task_stop(k)
    \/ StopAllCall
    \/ \E i \in 1..MaxStopCalls : StopAllResume(i)
    \/ \E k \in Keys : JobCancelled(k)
    \/ \E k \in Keys : JobStart(k)
    \/ \E k \in Keys : JobAcquire(k)
    \/ \E k \in Keys, ok \in BOOLEAN : JobBrowser(k, ok)
    \/ \E k \in Keys, i \in Scenes, ok \in BOOLEAN : JobFinishScene(k, i, ok)
    \/ \E k \in Keys, ok, rep \in BOOLEAN, err \in ErrorKinds : JobFinish(k, ok, err, rep)

SpecProgress == Init /\ [][NextProgress]_vars

\* stopping single jobs: submissions, the per-task and global pause endpoints and
\* the jobs, with every call of the stop endpoint recorded
NextStop ==
    \/ \E k \in Keys : _start_task(k)
    \/ \E k \in Keys : api_task_stop_recorded(k)
    \/ \E k \in Keys : api_task_pause(k)
    \/ \E k \in Keys : api_task_resume(k)
    \/ api_pause
    \/ api_resume
    \/ \E k \in Keys : JobStep(k)

SpecStop == Init /\ [][NextStop]_vars

\* the bookkeeping of the records: every entry point, the stop endpoints and the
\* events of the jobs; nothing pauses, so the gates stay open
NextRecord ==
    \/ api_run
    \/ \E k \in Keys : api_run_workflow(k)
    \/ \E k \in Keys : api_task_start(k)
    \/ \E k \in Keys : api_task_stop(k)
    \/ StopAllCall
    \/ \E i \in 1..MaxStopCalls : StopAllResume(i)
    \/ \E k \in Keys : JobCancelled(k)
    \/ \E k \in Keys : JobStart(k)
    \/ \E k \in Keys : JobAcquire(k)
    \/ \E k \in Keys, ok \in BOOLEAN : JobBrowser(k, ok)
    \/ \E k \in Keys, i \in Scenes, ok \in BOOLEAN : JobFinishScene(k, i, ok)
    \/ \E k \in Keys, ok, rep \in BOOLEAN, err \in ErrorKinds : JobFinish(k, ok, err, rep)

\* error, report and finished_at are followed
FollowFields == followed = {"fields"}

InitFields == SchedInit /\ FollowFields /\ BrollIdle /\ JobIdle

SpecFields == InitFields /\ [][NextRecord]_vars

\* scene_total, done_scenes and _global_scene_done are followed
FollowProgress == followed = {"progress"}

InitCounters == SchedInit /\ FollowProgress /\ BrollIdle /\ JobIdle

SpecCounters == InitCounters /\ [][NextRecord]_vars

\* the runs of a key one after another: the submissions and stops of single jobs
\* and the events of the jobs, with the fields of the records and what each
\* start_part found in them
NextRestart ==
    \/ \E k \in Keys : api_task_start(k)
    \/ \E k \in Keys : api_task_stop(k)
    \/ \E k \in Keys : JobCancelled(k)
    \/ \E k \in Keys : JobStart(k)
    \/ \E k \in Keys : JobAcquire(k)
    \/ \E k \in Keys, ok \in BOOLEAN : JobBrowser(k, ok)
    \/ \E k \in Keys, i \in Scenes, ok \in BOOLEAN : JobFinishScene(k, i, ok)
    \/ \E k \in Keys, ok, rep \in BOOLEAN, err \in ErrorKinds : JobFinish(k, ok, err, rep)

FollowRestart == followed = {"fields", "restart"}

InitRestart == SchedInit /\ FollowRestart /\ BrollIdle /\ JobIdle

SpecRestart == InitRestart /\ [][NextRestart]_vars

\* scenes that fail and are tried again: submissions and the events of the jobs,
\* with the counters and the latest failed scene; nothing stops or pauses
NextRetry ==
    \/ \E k \in Keys : api_task_start(k)
    \/ \E k \in Keys : JobStart(k)
    \/ \E k \in Keys : JobAcquire(k)
    \/ \E k \in Keys, ok \in BOOLEAN : JobBrowser(k, ok)
    \/ \E k \in Keys, i \in Scenes, ok \in BOOLEAN : JobFinishScene(k, i, ok)
    \/ \E k \in Keys, ok, rep \in BOOLEAN, err \in ErrorKinds : JobFinish(k, ok, err, rep)

InitRetry == SchedInit /\ followed = {"progress", "retry"} /\ BrollIdle /\ JobIdle

SpecRetry == InitRetry /\ [][NextRetry]_vars

\* the figures the health report reads: runs planned by POST /run, stops of
\* single jobs and the events of the jobs, with scene_total and report_details
NextHealth ==
    \/ api_run
    \/ \E k \in Keys : api_task_stop(k)
    \/ \E k \in Keys : JobCancelled(k)
    \/ \E k \in Keys : JobStart(k)
    \/ \E k \in Keys : JobAcquire(k)
    \/ \E k \in Keys, ok \in BOOLEAN : JobBrowser(k, ok)
    \/ \E k \in Keys, i \in Scenes, ok \in BOOLEAN : JobFinishScene(k, i, ok)
    \/ \E k \in Keys, ok, rep \in BOOLEAN, err \in ErrorKinds : JobFinish(k, ok, err, rep)

InitHealth == SchedInit /\ followed = {"progress", "health"} /\ BrollIdle /\ JobIdle

SpecHealth == InitHealth /\ [][NextHealth]_vars

\* the pages of concurrent jobs are followed: the semaphore has PageSlots slots,
\* one for every key, so no task ever waits for a slot
NextPages ==
    \/ \E k \in Keys : _start_task(k)
    \/ \E k \in Keys : api_task_stop(k)
    \/ StopAllCall
    \/ \E i \in 1..MaxStopCalls : StopAllResume(i)
    \/ \E k \in Keys : JobCancelled(k)
    \/ \E k \in Keys : JobStart(k)
    \/ \E k \in Keys, ok \in BOOLEAN : JobBrowser(k, ok)
    \/ \E k \in Keys, ok, rep \in BOOLEAN, err \in ErrorKinds : JobFinish(k, ok, err, rep)

FollowPages == followed = {"pages"}

InitPages == SchedInit /\ FollowPages /\ BrollIdle /\ JobIdle

SpecPages == InitPages /\ [][NextPages]_vars

TypeOKPages ==
    /\ jobPage \in [Keys -> {NoPage} \cup {InitSession(ContextPages)}]
    /\ SlotsHeld <= PageSlots

TypeOKRecord ==
    /\ recError \in [Keys -> ErrorKinds]
    /\ sceneTotal \in [Keys -> {0, NumScenes}]
    /\ doneScenes \in 0..MaxDoneScenes
    /\ globalSeen \subseteq Keys \X Scenes

TypeOK ==
    /\ status \in [Keys -> {"none"} \cup Live \cup Terminal]
    /\ taskGate \in [Keys -> {"none", "open", "closed"}]
    /\ \A k \in Keys : sceneDone[k] \in 0..NumScenes
    /\ SlotsHeld <= Capacity
    /\ \A k \in Keys : tasks[k] = (IF pc[k] = "idle" THEN 0 ELSE 1)
    /\ \A k \in Keys : pc[k] # "idle" => handle[k]

\* ------------------------- handle_broll_for_scene (heygen_automation.py)
ProbeStates == {"ok", "needs_set_bg", "empty_canvas", "unknown"}

\* _detect_broll_state_after_canvas_click: the button found decides the state
\* (Detach/Change BG, Set as BG button, Set as BG menu item, BG Color)
DetectState(okBtn, setBgBtn, setBgMenu, bgColorBtn) ==
    IF okBtn THEN "ok"
    ELSE IF setBgBtn \/ setBgMenu THEN "needs_set_bg"
    ELSE IF bgColorBtn THEN "empty_canvas"
    ELSE "unknown"

\* last_validation_reason after the first probe of an attempt
ReasonAfterProbe(kind, st) ==
    IF st = "empty_canvas" THEN "bg_color_visible_after_insert"
    ELSE IF st = "unknown" /\ kind = "stock" THEN "unknown_state"
    ELSE ""

\* last_validation_reason in the needs_set_bg branch
ReasonAfterSetBg(kind, st) ==
    IF st = "needs_set_bg" THEN "set_as_bg_still_visible"
    ELSE IF st = "empty_canvas" THEN "bg_color_visible_after_set_bg"
    ELSE IF st = "unknown" /\ kind = "stock" THEN "unknown_after_set_bg"
    ELSE ""

\* the state test that ends the invocation with finish_broll ok=True
Accepted(kind, st) ==
    IF kind = "nano" THEN st \in {"ok", "unknown"} ELSE st = "ok"

\* faulty variant: off by one, a fourth attempt is started
RetryAllowed_OffByOne(attempt) == attempt <= MaxAttempts

\* `if attempt < 3: continue`
RetryAllowed(attempt) == attempt < MaxAttempts

\* the category the branch reports its failures under
ErrorCategory(kind) == IF kind = "nano" THEN "nano_banano_errors" ELSE "broll_errors"

\* faulty variant: the early `return` leaves no entry in the report
BrollFail_NoEntry(cat, ret) ==
    /\ bReport' = bReport
    /\ bFinish' = "fail"
    /\ bResult' = ret
    /\ bPc' = "done"

\* an early `return` after appending a report entry without attempt number
BrollFail(cat, ret) ==
    /\ bReport' = Append(bReport, [cat |-> cat, attempt |-> 0, reason |-> ""])
    /\ bFinish' = "fail"
    /\ bResult' = ret
    /\ bPc' = "done"

\* the end of one attempt, after the probe(s) left state st with reason r
BrollDecide(st, r) ==
    IF Accepted(bKind, st)
    THEN /\ bFinish' = "ok"
         /\ bResult' = "true"
         /\ bPc' = "done"
         /\ UNCHANGED <<bAttempt, bWords, bReport>>
    ELSE IF RetryAllowed(bAttempt)
    THEN /\ bAttempt' = bAttempt + 1
         /\ bPc' = "act"
         /\ bWords' = bQWords
         /\ UNCHANGED <<bFinish, bResult, bReport>>
    ELSE /\ bReport' = Append(bReport,
                          [cat |-> ErrorCategory(bKind), attempt |-> bAttempt,
                           reason |-> IF r = "" THEN "unknown" ELSE r])
         /\ bFinish' = "fail"
         /\ bResult' = IF bKind = "nano" THEN "true" ELSE "false"
         /\ bPc' = "done"
         /\ UNCHANGED <<bAttempt, bWords>>

BrollInit ==
    /\ bKind \in {"empty", "nano", "stock"}
    /\ bQWords \in 1..MaxWords
    /\ bWords = bQWords
    /\ bPc = "start"
    /\ bAttempt = 1
    /\ bActs = 0
    /\ bState = "none"
    /\ bProbes = 0
    /\ bReason = ""
    /\ bReport = <<>>
    /\ bFinish = "none"
    /\ bResult = "none"

\* entry: an empty query is skipped, a nano-banano prompt takes the generated-image
\* loop, anything else the stock-footage loop
BrollEnter ==
    /\ bPc = "start"
    /\ IF bKind = "empty"
       THEN /\ bReport' = Append(bReport, [cat |-> "broll_skipped", attempt |-> 0, reason |-> ""])
            /\ bResult' = "true"
            /\ bPc' = "done"
       ELSE /\ bPc' = "act"
            /\ UNCHANGED <<bReport, bResult>>
    /\ UNCHANGED <<bKind, bAttempt, bActs, bQWords, bWords, bState, bProbes, bReason,
                   bFinish, schedVars, jobVars>>

\* start of an attempt. nano: handle_nano_banano returns (ok, err);
\* stock: _open_media_panel and _select_video_tab
\* (bState is set back to "none" so that it always is the probe of the current attempt)
BrollAct(outcome) ==
    /\ bPc = "act"
    /\ bState' = "none"
    /\ IF bKind = "nano"
       THEN /\ outcome \in {"ok", "fail"}
            /\ bActs' = bActs + 1
            /\ IF outcome = "ok"
               THEN /\ bPc' = "probe"
                    /\ UNCHANGED <<bReport, bFinish, bResult>>
               ELSE BrollFail("nano_banano_errors", "true")
       ELSE /\ outcome \in {"ok", "panel_fail", "tab_fail"}
            /\ bActs' = bActs
            /\ IF outcome = "ok"
               THEN /\ bPc' = "search"
                    /\ UNCHANGED <<bReport, bFinish, bResult>>
               ELSE BrollFail("broll_errors", "false")
    /\ UNCHANGED <<bKind, bAttempt, bQWords, bWords, bProbes, bReason, schedVars, jobVars>>

\* one round of the stock search loop (`while True`)
BrollSearch(outcome) ==
    /\ bPc = "search"
    /\ outcome \in {"input_missing", "type_fail", "no_results", "click_fail", "clicked"}
    /\ CASE outcome \in {"input_missing", "type_fail"} ->
              /\ BrollFail("broll_errors", "false")
              /\ UNCHANGED <<bActs, bWords>>
         [] outcome = "no_results" ->
              IF bWords > 1
              THEN /\ bWords' = bWords - 1
                   /\ UNCHANGED <<bActs, bPc, bReport, bFinish, bResult>>
              ELSE /\ BrollFail("broll_no_results", "false")
                   /\ UNCHANGED <<bActs, bWords>>
         [] outcome = "click_fail" ->
              /\ bActs' = bActs + 1
              /\ BrollFail("broll_errors", "false")
              /\ UNCHANGED bWords
         [] outcome = "clicked" ->
              /\ bActs' = bActs + 1
              /\ bPc' = "probe"
              /\ UNCHANGED <<bWords, bReport, bFinish, bResult>>
    /\ UNCHANGED <<bKind, bAttempt, bQWords, bState, bProbes, bReason, schedVars, jobVars>>

\* `state = await self._detect_broll_state_after_canvas_click(page)`
BrollProbe(okBtn, setBgBtn, setBgMenu, bgColorBtn) ==
    /\ bPc = "probe"
    /\ bProbes' = bProbes + 1
    /\ LET st == DetectState(okBtn, setBgBtn, setBgMenu, bgColorBtn) IN
       /\ bState' = st
       /\ IF st = "needs_set_bg"
          THEN /\ bPc' = "setbg"
               /\ UNCHANGED <<bAttempt, bWords, bReason, bReport, bFinish, bResult>>
          ELSE /\ bReason' = ReasonAfterProbe(bKind, st)
               /\ BrollDecide(st, ReasonAfterProbe(bKind, st))
    /\ UNCHANGED <<bKind, bActs, bQWords, schedVars, jobVars>>

\* faulty variant: after the Set-as-BG click the insertion is started again
BrollSetBg_RerunsAct(clicked) ==
    /\ bPc = "setbg"
    /\ IF clicked
       THEN /\ bPc' = "act"
            /\ UNCHANGED <<bAttempt, bWords, bReason, bReport, bFinish, bResult>>
       ELSE /\ bReason' = ReasonAfterSetBg(bKind, bState)
            /\ BrollDecide(bState, ReasonAfterSetBg(bKind, bState))
    /\ UNCHANGED <<bKind, bActs, bQWords, bState, bProbes, schedVars, jobVars>>

\* `clicked_bg = await self._click_set_as_bg_if_present(page)`
BrollSetBg(clicked) ==
    /\ bPc = "setbg"
    /\ IF clicked
       THEN /\ bPc' = "reprobe"
            /\ UNCHANGED <<bAttempt, bWords, bReason, bReport, bFinish, bResult>>
       ELSE /\ bReason' = ReasonAfterSetBg(bKind, bState)
            /\ BrollDecide(bState, ReasonAfterSetBg(bKind, bState))
    /\ UNCHANGED <<bKind, bActs, bQWords, bState, bProbes, schedVars, jobVars>>

\* the probe after the Set-as-BG click
BrollReprobe(okBtn, setBgBtn, setBgMenu, bgColorBtn) ==
    /\ bPc = "reprobe"
    /\ bProbes' = bProbes + 1
    /\ LET st == DetectState(okBtn, setBgBtn, setBgMenu, bgColorBtn) IN
       /\ bState' = st
       /\ bReason' = ReasonAfterSetBg(bKind, st)
       /\ BrollDecide(st, ReasonAfterSetBg(bKind, st))
    /\ UNCHANGED <<bKind, bActs, bQWords, schedVars, jobVars>>

NextBroll ==
    \/ BrollEnter
    \/ \E o \in {"ok", "fail", "panel_fail", "tab_fail"} : BrollAct(o)
    \/ \E o \in {"input_missing", "type_fail", "no_results", "click_fail", "clicked"} :
          BrollSearch(o)
    \/ \E a, b, c, d \in BOOLEAN : BrollProbe(a, b, c, d)
    \/ \E clicked \in BOOLEAN : BrollSetBg(clicked)
    \/ \E a, b, c, d \in BOOLEAN : BrollReprobe(a, b, c, d)

InitBroll == SchedInit /\ RecOff /\ BrollInit /\ JobIdle

SpecBroll == InitBroll /\ [][NextBroll]_vars

\* calls of wf_render on every template and context within the bounds
InitRender == SchedInit /\ RecOff /\ BrollIdle /\ JobOff /\ RenderInit

SpecRender == InitRender /\ [][RenderCall]_vars


\* ------------------------- process_episode_part / _run_workflow (one job)
StepTypes == {"navigate", "fill_scene", "handle_broll", "generate", "final_submit"}
Workflows == UNION {[1..n -> StepTypes] : n \in 1..MaxWfSteps}
BrollKinds == {"none", "empty", "nano", "stock"}

\* the report keys _should_block_generation reads
BlockingCategories ==
    {"validation_missing", "broll_skipped", "broll_errors", "broll_no_results"}

\* _should_block_generation: a read category holds an entry, or a step is SKIPPED
ShouldBlock(rep, skipped) == rep \cap BlockingCategories # {} \/ skipped

\* faulty variant: a blocked generate / final_submit step is skipped with success
GateOutcome_SkipsWhenBlocked(enabled, blocked) ==
    IF ~enabled \/ blocked THEN "skip" ELSE "act"

\* the head of the generate and final_submit steps
GateOutcome(enabled, blocked) ==
    IF ~enabled THEN "skip" ELSE IF blocked THEN "abort" ELSE "act"

\* `has_broll_step`, and from it `inline_broll` of a fill_scene step without params
HasBrollStep == \E i \in 1..Len(jSteps) : jSteps[i] = "handle_broll"
InlineBroll == jFlow = "default" \/ ~HasBrollStep

\* the scene loop that is running fills texts (fill_scene step, default flow)
FillLoop == jFlow = "default" \/ jSteps[jIdx] = "fill_scene"

\* steps that act on the page directly, a step of a type _execute_single_step
\* does not know, and the gated generate step
InterpreterSteps == {"navigate", "unknown", "generate"}
InterpreterWorkflows == UNION {[1..n -> InterpreterSteps] : n \in 1..MaxWfSteps}

\* process_episode_part has just been called
JobFresh ==
    /\ RenderIdle
    /\ jPc = "authorize"
    /\ jIdx = 0
    /\ jScene = 0
    /\ jRound = 0
    /\ jExecuted = <<>>
    /\ jRaisedAt = 0
    /\ jReport = {}
    /\ jSkipped = FALSE
    /\ jGenClicked = FALSE
    /\ jSubmitted = FALSE
    /\ jDirtyAction = FALSE
    /\ jLastError = ""
    /\ jRet = "none"
    /\ jStatus = "running"
    /\ jError = ""
    /\ jTrouble = FALSE
    /\ jCompensated = FALSE
    /\ jExhausted = FALSE

JobInit ==
    /\ jFlow \in {"workflow", "default"}
    /\ jSteps \in (IF jFlow = "workflow" THEN Workflows ELSE {<<>>})
    /\ jGenEnabled \in BOOLEAN
    /\ jBrolls \in [1..NumScenes -> BrollKinds]
    /\ JobFresh

\* a job that runs a workflow of InterpreterSteps; its scenes ask for no b-roll
InterpreterInit ==
    /\ jFlow = "workflow"
    /\ jSteps \in InterpreterWorkflows
    /\ jGenEnabled \in BOOLEAN
    /\ jBrolls = [i \in 1..NumScenes |-> "none"]
    /\ JobFresh

\* faulty variant: there is no `except Exception` clause
ExceptClauses_LetThrough(exc) == IF exc = "cancelled" THEN "cancelled" ELSE "raised"

\* the except clauses of the try block of process_episode_part, which begins
\* with _init_session: CancelledError is raised again, any other exception is
\* printed and the call returns False
ExceptClauses(exc) == IF exc = "cancelled" THEN "cancelled" ELSE "false"

\* process_episode_part returns v, or ends with the exception v
JReturns(v) ==
    /\ jRet' = v
    /\ jPc' = "ret"

\* faulty variant: the loop of _run_workflow goes on after a failed step
AfterStep_Continues(ok) ==
    /\ jIdx' = jIdx + 1
    /\ jPc' = "dispatch"
    /\ UNCHANGED jRet

\* `ok = await self._execute_single_step(...); if not ok: return False`
AfterStep(ok) ==
    IF ok
    THEN /\ jIdx' = jIdx + 1
         /\ jPc' = "dispatch"
         /\ UNCHANGED jRet
    ELSE /\ JReturns("false")
         /\ UNCHANGED jIdx

\* the end of one workflow step: its result, whether its handler raised, and
\* whether the generate button was clicked
StepEnds(ok, raised, clicked) ==
    /\ AfterStep(ok)
    /\ jRaisedAt' = (IF raised THEN jIdx ELSE jRaisedAt)
    /\ jGenClicked' = (jGenClicked \/ clicked)
    /\ jDirtyAction' = (jDirtyAction \/ (clicked /\ jReport # {}))
    /\ jTrouble' = (jTrouble \/ ~ok)
    /\ UNCHANGED jScene

\* faulty variant: a step of an unknown type fails the run
UnknownStep_Fails == StepEnds(FALSE, FALSE, FALSE)

\* `if step_type: print("unknown step")` and `return True`
UnknownStep == StepEnds(TRUE, FALSE, FALSE)

\* the end of one iteration of the scene loop
NextScene ==
    IF jScene < NumScenes
    THEN /\ jScene' = jScene + 1
         /\ jPc' = (IF FillLoop THEN "scene" ELSE "brollcall")
         /\ UNCHANGED <<jIdx, jRet>>
    ELSE /\ jScene' = 0
         /\ IF jFlow = "default"
            THEN /\ jPc' = "validate"
                 /\ UNCHANGED <<jIdx, jRet>>
            ELSE AfterStep(TRUE)

\* perform_step("authorize_session", critical=True), then the choice of the flow
J_Authorize(ok) ==
    /\ jPc = "authorize"
    /\ IF ok
       THEN /\ jPc' = (IF jFlow = "workflow" THEN "dispatch" ELSE "open")
            /\ jIdx' = (IF jFlow = "workflow" THEN 1 ELSE 0)
            /\ UNCHANGED <<jRet, jLastError, jTrouble>>
       ELSE /\ JReturns(ExceptClauses("error"))
            /\ jLastError' = "authorize_session"
            /\ jTrouble' = TRUE
            /\ UNCHANGED jIdx
    /\ UNCHANGED <<jCfg, jScene, jRound, jExecuted, jRaisedAt, jReport, jSkipped,
                   jGenClicked, jSubmitted, jDirtyAction, jStatus, jError, jCompensated, jExhausted,
                   schedVars, brollVars>>

\* default flow: perform_step("open_template", critical=True)
J_OpenTemplate(ok) ==
    /\ jPc = "open"
    /\ IF ok
       THEN /\ jPc' = "title"
            /\ UNCHANGED <<jRet, jLastError, jTrouble>>
       ELSE /\ JReturns(ExceptClauses("error"))
            /\ jLastError' = "open_template"
            /\ jTrouble' = TRUE
    /\ UNCHANGED <<jCfg, jIdx, jScene, jRound, jExecuted, jRaisedAt, jReport, jSkipped,
                   jGenClicked, jSubmitted, jDirtyAction, jStatus, jError, jCompensated, jExhausted,
                   schedVars, brollVars>>

\* one round of the loop of _run_workflow: _execute_single_step on step jIdx,
\* up to the end of the step or to the start of its scene loop
J_Dispatch(outcome) ==
    /\ jPc = "dispatch"
    /\ IF jIdx > Len(jSteps)
       THEN /\ outcome = "ok"
            /\ JReturns("true")
            /\ UNCHANGED <<jIdx, jScene, jExecuted, jRaisedAt, jGenClicked, jDirtyAction,
                           jTrouble>>
       ELSE /\ jExecuted' = Append(jExecuted, jIdx)
            /\ CASE jSteps[jIdx] = "navigate" ->
                      /\ outcome \in {"ok", "raises"}
                      /\ StepEnds(outcome = "ok", outcome = "raises", FALSE)
                 [] jSteps[jIdx] = "fill_scene" ->
                      /\ outcome = "ok"
                      /\ jPc' = "title"
                      /\ UNCHANGED <<jIdx, jRet, jScene, jRaisedAt, jGenClicked,
                                     jDirtyAction, jTrouble>>
                 [] jSteps[jIdx] = "handle_broll" ->
                      /\ outcome = "ok"
                      /\ jPc' = "brollcall"
                      /\ jScene' = 1
                      /\ UNCHANGED <<jIdx, jRet, jRaisedAt, jGenClicked, jDirtyAction,
                                     jTrouble>>
                 [] jSteps[jIdx] = "generate" ->
                      LET g == GateOutcome(jGenEnabled, ShouldBlock(jReport, jSkipped)) IN
                      IF g = "skip" THEN outcome = "ok" /\ StepEnds(TRUE, FALSE, FALSE)
                      ELSE IF g = "abort" THEN outcome = "ok" /\ StepEnds(FALSE, FALSE, FALSE)
                      ELSE /\ outcome \in {"ok", "no_button", "raises"}
                           /\ StepEnds(outcome # "raises", outcome = "raises", outcome = "ok")
                 [] jSteps[jIdx] = "final_submit" ->
                      LET g == GateOutcome(jGenEnabled, ShouldBlock(jReport, jSkipped)) IN
                      IF g = "skip" THEN outcome = "ok" /\ StepEnds(TRUE, FALSE, FALSE)
                      ELSE IF g = "abort" THEN outcome = "ok" /\ StepEnds(FALSE, FALSE, FALSE)
                      ELSE \* `title` is not defined in _execute_single_step: NameError
                           /\ outcome = "raises"
                           /\ StepEnds(FALSE, TRUE, FALSE)
                 [] OTHER ->
                      /\ outcome = "ok"
                      /\ UnknownStep
    /\ UNCHANGED <<jCfg, jRound, jReport, jSkipped, jSubmitted, jLastError, jStatus,
                   jError, jCompensated, jExhausted, schedVars, brollVars>>

\* perform_step("set_part_title", critical=False)
J_Title(outcome) ==
    /\ jPc = "title"
    /\ outcome \in {"ok", "false", "raises"}
    /\ jSkipped' = (jSkipped \/ outcome # "ok")
    /\ jTrouble' = (jTrouble \/ outcome # "ok")
    /\ jLastError' = (IF outcome = "raises" THEN "set_part_title" ELSE jLastError)
    /\ jScene' = 1
    /\ jPc' = "scene"
    /\ UNCHANGED <<jCfg, jIdx, jRound, jExecuted, jRaisedAt, jReport, jGenClicked,
                   jSubmitted, jDirtyAction, jRet, jStatus, jError, jCompensated, jExhausted,
                   schedVars, brollVars>>

\* perform_step("fill_scene_<n>", critical=True): the default flow lets the
\* exception end the job, the fill_scene step catches it and goes on
J_Fill(ok) ==
    /\ jPc = "scene"
    /\ IF ok
       THEN /\ jPc' = "brollcall"
            /\ UNCHANGED <<jIdx, jScene, jRet, jLastError, jTrouble>>
       ELSE /\ jLastError' = "fill_scene"
            /\ jTrouble' = TRUE
            /\ IF jFlow = "default"
               THEN JReturns("false") /\ UNCHANGED <<jIdx, jScene>>
               ELSE NextScene
    /\ UNCHANGED <<jCfg, jRound, jExecuted, jRaisedAt, jReport, jSkipped, jGenClicked,
                   jSubmitted, jDirtyAction, jStatus, jError, jCompensated, jExhausted,
                   schedVars, brollVars>>

\* `if ... str(scene.get('brolls', '')).strip():` and the call of
\* handle_broll_for_scene on a query of `words` words
J_BrollCall(words) ==
    /\ jPc = "brollcall"
    /\ IF jBrolls[jScene] = "none" \/ (FillLoop /\ ~InlineBroll)
       THEN /\ words = 1
            /\ NextScene
            /\ UNCHANGED brollVars
       ELSE /\ jPc' = "broll"
            /\ bKind' = jBrolls[jScene]
            /\ bQWords' = words
            /\ bWords' = words
            /\ bPc' = "start"
            /\ bAttempt' = 1
            /\ bActs' = 0
            /\ bState' = "none"
            /\ bProbes' = 0
            /\ bReason' = ""
            /\ bReport' = <<>>
            /\ bFinish' = "none"
            /\ bResult' = "none"
            /\ UNCHANGED <<jIdx, jScene, jRet>>
    /\ UNCHANGED <<jCfg, jRound, jExecuted, jRaisedAt, jReport, jSkipped, jGenClicked,
                   jSubmitted, jDirtyAction, jLastError, jStatus, jError, jTrouble,
                   jCompensated, jExhausted, schedVars>>

\* the invocation ended because its last attempt failed and none was left
Exhausted ==
    /\ bPc = "done"
    /\ bFinish = "fail"
    /\ bAttempt = MaxAttempts
    /\ bReport # <<>>
    /\ bReport[Len(bReport)].attempt = MaxAttempts

\* faulty variant: a false result of the insertion ends the job
AfterBroll_AbortsOnFalse ==
    IF bResult = "false"
    THEN JReturns("false") /\ UNCHANGED <<jIdx, jScene>>
    ELSE NextScene

\* `ok_b = await self.perform_step("handle_broll_<n>", _broll_one, critical=False)`:
\* a false result is returned, not raised, and the loop goes on
AfterBroll == NextScene

\* handle_broll_for_scene has returned: its report entries are in self.report,
\* perform_step(critical=False) marks the step SKIPPED on a false result, and
\* _on_step has seen the finish_broll event
J_BrollReturn ==
    /\ jPc = "broll"
    /\ bPc = "done"
    /\ jReport' = jReport \cup {bReport[i].cat : i \in 1..Len(bReport)}
    /\ jSkipped' = (jSkipped \/ bResult = "false")
    /\ jError' = (IF bFinish = "fail" /\ jError = "" THEN "broll_failed" ELSE jError)
    /\ jCompensated' = (jCompensated \/ (bAttempt = 1 /\ bProbes = 2 /\ bState = "ok"))
    /\ jTrouble' = (jTrouble \/ bReport # <<>> \/ bResult = "false" \/ bFinish = "fail")
    /\ jExhausted' = (jExhausted \/ Exhausted)
    /\ AfterBroll
    /\ bKind' = "empty"
    /\ bPc' = "off"
    /\ bAttempt' = 1
    /\ bActs' = 0
    /\ bQWords' = 1
    /\ bWords' = 1
    /\ bState' = "none"
    /\ bProbes' = 0
    /\ bReason' = ""
    /\ bReport' = <<>>
    /\ bFinish' = "none"
    /\ bResult' = "none"
    /\ UNCHANGED <<jCfg, jRound, jExecuted, jRaisedAt, jGenClicked, jSubmitted,
                   jDirtyAction, jLastError, jStatus, schedVars>>

\* faulty variant: the loop goes on for as long as a scene is missing
AnotherRound_Unbounded(missing, attempt) == missing

\* `for attempt in range(1, 4)` with `if not missing: break`: another round follows
\* round `attempt`
AnotherRound(missing, attempt) == missing /\ attempt < ValidationRounds

\* default flow: one round of the final validation loop
J_Validate(missing) ==
    /\ jPc = "validate"
    /\ jRound' = jRound + 1
    /\ jReport' = (IF missing THEN jReport \cup {"validation_missing"}
                   ELSE jReport \ {"validation_missing"})
    /\ jTrouble' = (jTrouble \/ missing)
    /\ jPc' = (IF AnotherRound(missing, jRound + 1) THEN "validate" ELSE "final")
    /\ UNCHANGED <<jCfg, jIdx, jScene, jExecuted, jRaisedAt, jSkipped, jGenClicked,
                   jSubmitted, jDirtyAction, jLastError, jRet, jStatus, jError,
                   jCompensated, jExhausted, schedVars, brollVars>>

\* default flow: the checks after validation, the generate click and the final submit
J_Final(outcome) ==
    /\ jPc = "final"
    /\ IF "validation_missing" \in jReport \/ ShouldBlock(jReport, jSkipped)
       THEN /\ outcome = "ok"
            /\ JReturns("false")
            /\ UNCHANGED <<jGenClicked, jSubmitted, jDirtyAction, jTrouble>>
       ELSE IF ~jGenEnabled
       THEN /\ outcome = "ok"
            /\ JReturns("true")
            /\ UNCHANGED <<jGenClicked, jSubmitted, jDirtyAction, jTrouble>>
       ELSE /\ outcome \in {"ok", "no_button", "click_raises", "submit_fails", "submit_raises"}
            /\ jGenClicked' = (outcome \notin {"no_button", "click_raises"})
            /\ jSubmitted' = (outcome = "ok")
            /\ jDirtyAction' = (jDirtyAction \/ (jGenClicked' /\ jReport # {}))
            /\ jTrouble' = (jTrouble \/ outcome # "ok")
            /\ JReturns(IF outcome \in {"click_raises", "submit_raises"}
                        THEN ExceptClauses("error") ELSE "true")
    /\ UNCHANGED <<jCfg, jIdx, jScene, jRound, jExecuted, jRaisedAt, jReport, jSkipped,
                   jLastError, jStatus, jError, jCompensated, jExhausted, schedVars, brollVars>>

\* _run_one after process_episode_part: the error taken from _last_error and the
\* finish_part event
JobReturn ==
    /\ jPc = "ret"
    /\ jError' = (IF jRet = "false" /\ jError = "" /\ jLastError # ""
                  THEN jLastError ELSE jError)
    /\ jStatus' = (IF jRet = "true" THEN "success"
                   ELSE IF jRet = "cancelled" THEN "stopped" ELSE "failed")
    /\ jPc' = "done"
    /\ UNCHANGED <<jCfg, jIdx, jScene, jRound, jExecuted, jRaisedAt, jReport, jSkipped,
                   jGenClicked, jSubmitted, jDirtyAction, jLastError, jRet, jTrouble,
                   jCompensated, jExhausted, schedVars, brollVars>>

\* the positions of the flow at which the job body waits in an `await` of its
\* own (the awaits inside handle_broll_for_scene are not followed)
AwaitPcs == {"authorize", "open", "dispatch", "title", "scene", "brollcall", "validate",
             "final"}

\* task.cancel(): CancelledError is raised at the await the body waits in
J_Cancel ==
    /\ jPc \in AwaitPcs
    /\ JReturns(ExceptClauses("cancelled"))
    /\ UNCHANGED <<jCfg, jIdx, jScene, jRound, jExecuted, jRaisedAt, jReport, jSkipped,
                   jGenClicked, jSubmitted, jDirtyAction, jLastError, jStatus, jError,
                   jTrouble, jCompensated, jExhausted, schedVars, brollVars>>

NextJob ==
    \/ \E ok \in BOOLEAN : J_Authorize(ok)
    \/ \E ok \in BOOLEAN : J_OpenTemplate(ok)
    \/ \E o \in {"ok", "no_button", "raises"} : J_Dispatch(o)
    \/ \E o \in {"ok", "false", "raises"} : J_Title(o)
    \/ \E ok \in BOOLEAN : J_Fill(ok)
    \/ \E w \in 1..MaxWords : J_BrollCall(w)
    \/ J_BrollReturn
    \/ \E missing \in BOOLEAN : J_Validate(missing)
    \/ \E o \in {"ok", "no_button", "click_raises", "submit_fails", "submit_raises"} :
          J_Final(o)
    \/ JobReturn
    \/ NextBroll

InitJob == SchedInit /\ RecOff /\ BrollIdle /\ JobInit

SpecJob == InitJob /\ [][NextJob]_vars

\* one job whose task may be cancelled at any await of its body
NextEscape == NextJob \/ J_Cancel

SpecEscape == InitJob /\ [][NextEscape]_vars

\* the workflow interpreter of one job whose pause_events hold the global Event,
\* with the endpoints that close and open it
NextInterpreter ==
    \/ \E ok \in BOOLEAN : J_Authorize(ok)
    \/ \E o \in {"ok", "no_button", "raises"} : J_Dispatch(o)
    \/ JobReturn
    \/ api_pause
    \/ api_resume

InitInterpreter == SchedInit /\ RecOff /\ BrollIdle /\ InterpreterInit

SpecInterpreter == InitInterpreter /\ [][NextInterpreter]_vars

TypeOKJob ==
    /\ jPc \in {"off", "authorize", "open", "dispatch", "title", "scene", "brollcall",
                "broll", "validate", "final", "ret", "done"}
    /\ jIdx \in 0..(MaxWfSteps + 1)
    /\ jScene \in 0..NumScenes
    /\ jRound \in 0..ValidationRounds
    /\ jRet \in {"none", "true", "false", "cancelled"}
    /\ jStatus \in {"running", "success", "failed", "stopped"}

\* ------------------------------------------------------------- claims
\* C1: the number of task records of submitted, unfinished jobs whose status is
\* running never exceeds the semaphore capacity
C1_RunningWithinCapacity ==
    Cardinality({k \in Keys : pc[k] # "idle" /\ status[k] = "running"}) <= MaxConcurrency

\* a job passes a checkpoint: an _await_gate returns, or the gate waits of
\* _run_one before start_part complete
Crosses(k) ==
    \/ pc[k] \in {"cp_g", "cp_t"} /\ pc'[k] = "act"
    \/ pc[k] \in {"gate_g", "gate_t"} /\ pc'[k] = "browser"

\* C2: while the global gate is closed no job passes a checkpoint
C2_NoCrossingWhileGlobalClosed ==
    [][\A k \in Keys : Crosses(k) => globalGate]_vars

BlockedAtCheckpoint(k) == pc[k] \in {"cp_g", "cp_t", "gate_g", "gate_t"}

\* C3: a job blocked at a checkpoint while the global gate is open again, its own
\* gate open and no cancellation requested, passes the checkpoint, unless the
\* global gate or its own gate is closed again or it is cancelled first
C3_ReopenResumes ==
    \A k \in Keys :
        [] ( (BlockedAtCheckpoint(k) /\ globalGate /\ taskGate[k] = "open" /\ ~cancelReq[k])
             => <> ( pc[k] \in {"act", "browser"}
                     \/ ~globalGate \/ taskGate[k] # "open" \/ cancelReq[k] ) )

\* witness of C3: a job still suspended at the global gate after api_resume
\* reopened it
C3_Witness ==
    \E k \in Keys :
        /\ pc[k] \in {"cp_g", "gate_g"}
        /\ woken[k] /\ globalGate /\ taskGate[k] = "open" /\ ~cancelReq[k]

\* C4 as stated: right after _stop_all_tasks completes, every record that was
\* running, paused or queued when it was called is stopped
C4_LiveAtCallStopped ==
    lastStop.done => \A k \in lastStop.snap : status[k] = "stopped"

\* C4 amended: when _stop_all_tasks completes, every record that was running,
\* paused or queued when its marking loop ran becomes stopped, and no record is
\* left running, paused or queued
C4_LiveAtMarkingStopped ==
    [][lastStop'.done =>
         \A k \in Keys : /\ status[k] \in Live => status'[k] = "stopped"
                         /\ status'[k] \notin Live]_vars

\* witness of C4: stop-all has just stopped the record of a job whose task had
\* not run a single step
C4_Witness ==
    /\ lastStop.done
    /\ \E k \in lastStop.snap : status[k] = "stopped" /\ pc[k] = "new"

\* C5: right after _stop_all_tasks completes, the global gate and every existing
\* per-task gate are open
C5_GatesOpenAfterStopAll ==
    lastStop.done => (globalGate /\ \A k \in Keys : taskGate[k] # "closed")

\* witness of C5: stop-all has just completed and found a gate closed
C5_Witness == lastStop.done /\ lastStop.closedBefore

\* C6: a record that stop-all marked stopped does not become running, success or
\* failed unless its key is resubmitted
C6_StoppedByAllStays ==
    \A k \in Keys : markedByAll[k] => status[k] \notin {"running", "success", "failed"}

\* C7: scene_done equals the number of distinct scene indices confirmed ok since
\* the start_part of the run
C7_SceneDoneCountsDistinct ==
    \A k \in Keys : sceneDone[k] = Cardinality(okScenes[k])

\* witness of C7: an ok finish_scene was handled again for an index already counted
C7_Witness ==
    \E k \in Keys : dupOk[k] /\ sceneDone[k] >= 1 /\ pc[k] = "act"

\* C8: one invocation executes the insertion at most 3 times on either path
C8_AtMostThreeActs == bActs <= MaxAttempts

\* witness of C8: an invocation ended after a third insertion
C8_Witness == bPc = "done" /\ bActs = MaxAttempts /\ bAttempt = MaxAttempts

\* C9: finish_broll ok=True is reported only if the most recent probe returned ok
C9_SuccessOnlyAfterOkProbe == bFinish = "ok" => bState = "ok"

\* C10: when the probe was not ok on all 3 attempts, the invocation ends with
\* exactly one report entry, carrying attempt=3, and returns not-ok
C10_ExhaustionReported ==
    (bPc = "done" /\ bAttempt = MaxAttempts /\ bState \in ProbeStates \ {"ok"})
        => /\ Len(bReport) = 1
           /\ bReport[1].attempt = MaxAttempts
           /\ bResult = "false"

\* the status transitions of section "TaskRecord" of the contract
ListedTransitions ==
    {<<"queued", "running">>, <<"running", "success">>, <<"running", "failed">>,
     <<"running", "paused">>, <<"paused", "running">>,
     <<"running", "stopped">>, <<"paused", "stopped">>, <<"queued", "stopped">>}

\* the step in which the run of k reports start_part
StartsPart(k) == pc[k] # "browser" /\ pc'[k] = "browser"

\* C12: every change of a record's status is queued->running, running->success,
\* running->failed, running<->paused, running|paused|queued->stopped, or a
\* terminal status->running at the start_part of a resubmitted run (the step
\* that creates a record is not a change of its status)
C12_OnlyListedTransitions ==
    [][\A k \in Keys :
          LET a == status[k]
              b == status'[k]
          IN  \/ a = "none"
              \/ a = b
              \/ <<a, b>> \in ListedTransitions
              \/ a \in Terminal /\ b = "running" /\ StartsPart(k)]_vars

C14_StartPartAfterSlotAndGates ==
    [][\A k \in Keys :
          /\ (pc[k] \in {"new", "sem"} /\ pc'[k] \in HoldingPcs)
                 => SlotsHeld < MaxConcurrency
          /\ (pc'[k] = "gate_g" /\ pc[k] # "gate_g") => pc[k] \in {"new", "sem"}
          /\ (pc'[k] = "gate_t" /\ pc[k] # "gate_t")
                 => \/ pc[k] \in {"new", "sem"} /\ globalGate
                    \/ pc[k] = "gate_g" /\ woken[k]
          /\ StartsPart(k)
                 => /\ status'[k] = "running" /\ sceneDone'[k] = 0
                    /\ \/ pc[k] \in {"new", "sem"} /\ globalGate /\ taskGate[k] = "open"
                       \/ pc[k] = "gate_g" /\ woken[k] /\ taskGate[k] = "open"
                       \/ pc[k] = "gate_t" /\ woken[k]
          /\ (pc'[k] = "act" /\ pc[k] \notin {"act", "cp_g", "cp_t"})
                 => pc[k] = "browser" /\ status[k] # "none"
          /\ pc'[k] \in {"browser", "act"} => SlotsHeld' <= MaxConcurrency]_vars

\* witness of C14: a run reported start_part after it had to wait for its own
\* gate, and holds the slot
C14_Witness ==
    \E k \in Keys : pc[k] = "browser" /\ status[k] = "running" /\ taskGate[k] = "closed"

\* C15: once no job task is left unfinished, every slot is free and no handle
\* is registered
C15_AllEndedNothingHeld ==
    (\A k \in Keys : pc[k] = "idle") => (SlotsHeld = 0 /\ \A k \in Keys : ~handle[k])

\* C16: after api_task_stop hit a live job, the record is stopped and stays
\* stopped until the key is resubmitted
C16_StoppedStaysStopped ==
    \A k \in Keys : stoppedByStop[k] => status[k] = "stopped"

\* C11: when the first probe of an insertion finds Set as BG, the click is made
\* and the second probe finds the insertion in place, the call ends on its first
\* attempt with one act and no report entry, and a job in which nothing else
\* went wrong ends with status success and an empty report
C11_FollowupSucceedsFirstAttempt ==
    /\ (bPc = "done" /\ bAttempt = 1 /\ bProbes = 2 /\ bState = "ok")
          => (bActs = 1 /\ bReport = <<>> /\ bResult = "true" /\ bFinish = "ok")
    /\ (jPc = "done" /\ jCompensated /\ ~jTrouble)
          => (jStatus = "success" /\ jReport = {} /\ jError = "")

C11_Witness ==
    /\ jPc = "done"
    /\ jSteps = <<"navigate", "fill_scene">>
    /\ jCompensated
    /\ ~jTrouble
    /\ jStatus = "success"

\* the workflow is about to dispatch a generate or final_submit step
AtGatedStep ==
    /\ jPc = "dispatch"
    /\ jIdx \in 1..Len(jSteps)
    /\ jSteps[jIdx] \in {"generate", "final_submit"}

\* the dispatched step ends without a generate click and without a final submit
NoExternalAction == jGenClicked' = jGenClicked /\ jSubmitted' = jSubmitted

\* C17 (as stated): a generate or final_submit step reached while
\* _should_block_generation is true is skipped and returns success without any
\* external action, and the run goes on with the next step
C17_BlockedStepReturnsSuccess ==
    [][(AtGatedStep /\ ShouldBlock(jReport, jSkipped))
         => (NoExternalAction /\ jRet' = "none" /\ jPc' = "dispatch" /\ jIdx' = jIdx + 1)]_vars

\* C17 (amended): with generation enabled, a generate or final_submit step
\* reached while _should_block_generation is true makes no click and no submit
\* and returns failure, which ends the run at that step with status failed; with
\* generation disabled the step is skipped with success
C17_BlockedStepAbortsRun ==
    [][/\ (AtGatedStep /\ ~jGenEnabled)
            => (NoExternalAction /\ jRet' = "none" /\ jPc' = "dispatch" /\ jIdx' = jIdx + 1)
       /\ (AtGatedStep /\ jGenEnabled /\ ShouldBlock(jReport, jSkipped))
            => (NoExternalAction /\ jRet' = "false" /\ jPc' = "ret" /\ jIdx' = jIdx)
       /\ (jPc \in {"ret", "done"}) => (jExecuted' = jExecuted /\ jRet' = jRet)
       /\ (jPc = "ret" /\ jRet = "false") => jStatus' = "failed"]_vars

C17_Witness ==
    /\ jPc = "done"
    /\ jStatus = "failed"
    /\ jIdx \in 1..Len(jSteps)
    /\ jSteps[jIdx] \in {"generate", "final_submit"}
    /\ jGenEnabled
    /\ ShouldBlock(jReport, jSkipped)
    /\ jRaisedAt = 0
    /\ ~jGenClicked
    /\ ~jSubmitted

\* C18: no generate click and no final submit is made while the report of the job
\* holds an entry in any category
C18_NoActionWhileReportHoldsIssue == ~jDirtyAction

\* C19: the workflow steps of a job are dispatched in list order, one at a time
\* (a step is dispatched only when the one before it has ended), and once a step
\* handler has raised no later step is dispatched and the job ends failed
C19_StepsInOrderAbortOnRaise ==
    /\ jExecuted = [i \in 1..Len(jExecuted) |-> i]
    /\ Len(jExecuted) <= Len(jSteps)
    /\ jPc \in {"title", "scene", "brollcall", "broll"} /\ jFlow = "workflow"
          => (jIdx = Len(jExecuted) /\ jRet = "none")
    /\ jRaisedAt # 0
          => (Len(jExecuted) = jRaisedAt /\ jRet = "false" /\ jPc \in {"ret", "done"})
    /\ (jRaisedAt # 0 /\ jPc = "done") => jStatus = "failed"

C19_Witness ==
    /\ jPc = "done"
    /\ jRaisedAt = 1
    /\ Len(jSteps) > jRaisedAt
    /\ jStatus = "failed"

\* C20: a job that ends failed because a step handler raised has a non-empty
\* error field in its task record
C20_RaisedFailureHasError ==
    (jPc = "done" /\ jRaisedAt # 0 /\ jStatus = "failed") => jError # ""

\* the run of k ends in this step with an error of the browser-closed class
FatalEnd(k) == recError[k] # "closed" /\ recError'[k] = "closed"

\* C21: when a job fails with an error of the browser-closed class, stop-all is
\* triggered (it runs, or it is suspended in close_browser) and no record that
\* stop-all has marked is left running, paused or queued
C21_FatalErrorTriggersStopAll ==
    [][\A k \in Keys : FatalEnd(k)
          => /\ lastStop'.done \/ Len(stopCalls') > Len(stopCalls)
             /\ lastStop'.done => \A j \in Keys : status'[j] \notin Live]_vars

\* C22: for every record, 0 <= scene_done <= scene_total
C22_SceneDoneWithinTotal ==
    \A k \in Keys : 0 <= sceneDone[k] /\ sceneDone[k] <= sceneTotal[k]

\* C23: done_scenes equals the sum of scene_done over all records
RECURSIVE SumDone(_)
SumDone(ks) ==
    IF ks = {} THEN 0
    ELSE LET k == CHOOSE x \in ks : TRUE IN sceneDone[k] + SumDone(ks \ {k})

C23_DoneScenesIsSum == doneScenes = SumDone(Keys)

\* C24: no two jobs whose bodies run at the same time drive the same page
C24_ConcurrentJobsDriveDistinctPages ==
    \A k, j \in Keys :
        (k # j /\ pc[k] = "act" /\ pc[j] = "act") => jobPage[k] # jobPage[j]

\* the interpreter is about to run step jIdx, whose type is t
Dispatches(t) ==
    /\ jPc = "dispatch"
    /\ jIdx \in 1..Len(jSteps)
    /\ jSteps[jIdx] = t
    /\ jExecuted' # jExecuted

\* C25: while the global gate is closed the interpreter performs no external
\* action: a navigate step acts on the page only while the gate is open
C25_PureStepWaitsAtGate == [][Dispatches("navigate") => globalGate]_vars

\* C26: a step of an unrecognised type is skipped as successful: the run does
\* not return, nothing is recorded as failed and the next step of the list is
\* the one dispatched next
C26_UnknownStepSkipped ==
    [][Dispatches("unknown") =>
          /\ jPc' = "dispatch"
          /\ jIdx' = jIdx + 1
          /\ jRet' = "none"
          /\ jRaisedAt' = jRaisedAt
          /\ jTrouble' = jTrouble]_vars

\* the step after an unknown step has been executed
C26_Witness ==
    /\ Len(jSteps) > 1
    /\ jSteps[1] = "unknown"
    /\ jExecuted = <<1, Len(jSteps)>>
    /\ jPc = "done"
    /\ jStatus = "success"

\* positions of process_episode_part at which a step of the flow is being run
RunningPcs == {"open", "dispatch", "title", "scene", "brollcall", "broll", "validate",
               "final"}

\* C27: a run whose step list is empty performs no step and does not end with
\* status success
C27_EmptyStepListNotRun ==
    jSteps = <<>> => (jPc \notin RunningPcs /\ jStatus # "success")

\* C28: the stop endpoint of one job leaves a record that is already success,
\* failed or stopped as it is: neither its status nor its finished_at changes
C28_StopLeavesTerminalRecord ==
    [][\A k \in Keys :
          (api_task_stop(k) /\ status[k] \in Terminal)
             => (status'[k] = status[k] /\ finishedAt'[k] = finishedAt[k])]_vars

\* C29: the pause endpoint of one job changes the status of a record only if it
\* is running, and the resume endpoint only if it is paused
C29_PauseResumeOnlyFromTheirStatus ==
    [][\A k \in Keys :
          /\ (api_task_pause(k) /\ status[k] \notin {"none", "running"})
                => status'[k] = status[k]
          /\ (api_task_pause(k) /\ status[k] = "running") => status'[k] = "paused"
          /\ (api_task_resume(k) /\ status[k] \notin {"none", "paused"})
                => status'[k] = status[k]
          /\ (api_task_resume(k) /\ status[k] = "paused") => status'[k] = "running"]_vars

\* C30: at start_part the record is running and holds nothing of an earlier
\* run: scene_done 0, no error, no report, no finished_at, no seen scene
C30_StartPartResetsRecord ==
    [][\A k \in Keys :
          StartsPart(k) =>
             /\ status'[k] = "running"
             /\ sceneDone'[k] = 0
             /\ recError'[k] = ""
             /\ ~recReport'[k]
             /\ ~finishedAt'[k]
             /\ sceneSeen'[k] = {}]_vars

\* a job has just reported start_part on a record that held an error, a report,
\* a finished_at and a scene count of its previous run
C30_Witness ==
    \E k \in Keys :
        /\ pc[k] = "browser"
        /\ restarted[k]
        /\ status[k] = "running"
        /\ recError[k] = ""
        /\ sceneDone[k] = 0

\* C31: a submission of a key whose record is success, failed or stopped
\* creates the task of a new run
C31_SubmitOfTerminalStartsRun ==
    [][\A k \in Keys :
          ((_start_task(k) \/ api_task_start(k)) /\ status[k] \in Terminal)
             => tasks'[k] > tasks[k]]_vars

PausedWhileRunning(k) ==
    /\ pc[k] \in {"browser", "act", "cp_g", "cp_t"}
    /\ ~cancelReq[k]
    /\ taskGate[k] = "closed"

\* C33: with the global gate open, api_pause followed at once by api_resume
\* leaves every record with the status it had before; a job paused on its own
\* stays paused
C33_PauseAllResumeAllRestores ==
    (/\ globalGate
     /\ \A k \in Keys : status[k] = "paused" => PausedWhileRunning(k))
        => ResumedAll(PausedAll(status)) = status

\* C34: a finish_scene with ok=false changes neither scene_done nor done_scenes
\* nor the seen sets; an ok finish_scene of a scene not yet confirmed counts it
\* once in both counters
C34_FailedSceneNotCounted ==
    [][\A k \in Keys, i \in Scenes :
          /\ JobFinishScene(k, i, FALSE)
                => /\ sceneDone' = sceneDone
                   /\ doneScenes' = doneScenes
                   /\ sceneSeen' = sceneSeen
                   /\ globalSeen' = globalSeen
          /\ (JobFinishScene(k, i, TRUE) /\ i \notin sceneSeen[k] /\ <<k, i>> \notin globalSeen)
                => /\ sceneDone'[k] = sceneDone[k] + 1
                   /\ doneScenes' = doneScenes + 1]_vars

\* a scene failed, was tried again with success, and is counted once
C34_Witness ==
    /\ lastFailed.retried
    /\ \E k \in Keys :
          /\ lastFailed.key = k
          /\ sceneSeen[k] = {lastFailed.scene}
          /\ sceneDone[k] = Cardinality(sceneSeen[k])
          /\ doneScenes = sceneDone[k]

\* C35: for every task whose run has ended, scene_ok is the number of scenes
\* confirmed ok for it (its scene_done), so it never exceeds that number
C35_SceneOkIsSceneDone ==
    \A k \in Keys :
        status[k] \in Terminal => SceneOk(sceneTotal[k], details[k]) = sceneDone[k]

\* C36: in the returned string every placeholder whose name is a key of the
\* context is replaced by the text of the key's value, every other piece is as
\* in the template, and a template without placeholder is returned as it is
C36_PlaceholdersRendered ==
    render.done =>
        /\ Len(render.out) = Len(render.tpl)
        /\ \A i \in 1..Len(render.tpl) :
              LET piece == render.tpl[i] IN
              IF piece.kind = "placeholder" /\ piece.s \in ContextKeys
                 /\ render.ctx[piece.s] # Absent
              THEN render.out[i] = TextPiece(render.ctx[piece.s].text)
              ELSE render.out[i] = piece

\* ---------------------------------------------------------------------------
\* C37: in the default flow the validation runs at most ValidationRounds (3)
\* times, a round that reports missing scenes is a normal step (the loop goes on
\* or ends, nothing is raised), and when the loop is left with the last round
\* reporting a missing scene the job returns False with neither the generate
\* click nor the final submit; a clicked generate button therefore means that
\* the last round reported no missing scene.
C37_ValidationGatesGeneration ==
    [][/\ jRound' <= ValidationRounds
       /\ (jPc = "validate" /\ jPc' = "validate") =>
              ("validation_missing" \in jReport' /\ jRound' < ValidationRounds)
       /\ (jFlow = "default" /\ jPc = "final" /\ jPc' # "final") =>
              IF "validation_missing" \in jReport
              THEN jRet' = "false" /\ ~jGenClicked' /\ ~jSubmitted'
              ELSE jRaisedAt' = jRaisedAt]_vars

\* the third round was the first one without a missing scene, and the video was
\* generated and submitted
C37_Witness ==
    /\ jFlow = "default"
    /\ jRound = ValidationRounds
    /\ "validation_missing" \notin jReport
    /\ jGenClicked
    /\ jSubmitted
    /\ jPc = "done"

\* ---------------------------------------------------------------------------
\* C38: a record whose status is success, failed or stopped has finished_at
\* set, and finished_at goes from set to None only in the step that reports
\* start_part for that key (the step that takes the task past its gates to the
\* browser and writes the status running).
C38_TerminalHasFinishedAt ==
    /\ [](\A k \in Keys : status[k] \in Terminal => finishedAt[k])
    /\ [][\A k \in Keys :
             (finishedAt[k] /\ ~finishedAt'[k]) =>
                 (pc[k] # "browser" /\ pc'[k] = "browser" /\ status'[k] = "running")]_vars

\* a second run of a key, whose start_part cleared the stamp of the first run,
\* has ended and is stamped again
C38_Witness ==
    \E k \in Keys : restarted[k] /\ status[k] \in Terminal /\ finishedAt[k] /\ pc[k] = "idle"

\* ---------------------------------------------------------------------------
\* C39: an invocation of handle_broll_for_scene that has returned False has
\* appended exactly one entry to the report, under broll_errors or under
\* broll_no_results, and no invocation, running or returned, with whatever
\* result, has appended more than one entry.
C39_OneEntryPerFailedBroll ==
    /\ Len(bReport) <= 1
    /\ (bPc = "done" /\ bResult = "false") =>
           (Len(bReport) = 1 /\ bReport[1].cat \in {"broll_errors", "broll_no_results"})

\* a stock search that was shortened word by word and found nothing at all
C39_Witness ==
    /\ bPc = "done"
    /\ bResult = "false"
    /\ bQWords = MaxWords
    /\ bWords = 1
    /\ bReport = <<[cat |-> "broll_no_results", attempt |-> 0, reason |-> ""]>>

\* ---------------------------------------------------------------------------
\* C40: once _init_session has begun, process_episode_part ends in one of three
\* ways: it returns True, it returns False, or it ends with CancelledError. A
\* failed critical step, an exception of the generate click or of the final
\* submit and an exception of the handler of a workflow step give the result
\* False, and the call ends with CancelledError only in
\* the step in which its task was cancelled.
C40_OnlyCancellationEscapes ==
    [][/\ jRet' \in {"none", "true", "false", "cancelled"}
       /\ (jRet' = "cancelled" /\ jRet # "cancelled") => J_Cancel
       /\ (\/ J_Authorize(FALSE)
           \/ J_OpenTemplate(FALSE)
           \/ \E o \in {"click_raises", "submit_raises"} : J_Final(o)) => jRet' = "false"
       /\ jRaisedAt' # jRaisedAt => jRet' = "false"
       /\ (jPc = "ret" /\ jRet = "cancelled") => jStatus' = "stopped"]_vars

\* the generate click or the final submit of an unblocked default run raised,
\* and the run ended as failed
C40_Witness ==
    /\ jFlow = "default"
    /\ jGenEnabled
    /\ jRound >= 1
    /\ ~ShouldBlock(jReport, jSkipped)
    /\ jRet = "false"
    /\ jPc = "done"
    /\ jStatus = "failed"

====
